---- MODULE Spec2Model ----
(***************************************************************************)
(* Verification model of the document question-answering backend:          *)
(*   - services/document_processor.py : the fallback text splitter and    *)
(*     DocumentProcessor                                                   *)
(*   - services/rag_service.py        : RAGService (per-session index      *)
(*     handles, ingestion, retrieval, answer generation)                   *)
(*   - main.py                        : the chat and upload endpoints      *)
(*                                                                         *)
(* Text is modelled as a sequence of units.  A unit stands for a run of    *)
(* characters: " " is a run of whitespace, every other unit is a run of    *)
(* non-whitespace characters (a word, a punctuation mark or one of the     *)
(* prompt markers).  Lengths and slice positions of the source count       *)
(* units here.                                                             *)
(***************************************************************************)
EXTENDS Integers, Sequences, FiniteSets, TLC

(***************************************************************************)
(* Bounds of the model.                                                    *)
(***************************************************************************)
\* longest text handed to split_text in the chunker specification
MaxLen == 5
\* largest chunk_size / chunk_overlap tried in the chunker specification
MaxChunkSize == 3
MaxOverlap == 3
\* max_chunks of split_text and process_text (10000 in the source), scaled
\* down so that the ceiling is reached by texts of length <= MaxLen
max_chunks == 4

WS == " "
Units == {"a", WS}

Min(a, b) == IF a < b THEN a ELSE b

\* all sequences over S of length 0..n
SeqsUpTo(S, n) == UNION {[1..k -> S] : k \in 0..n}

(***************************************************************************)
(* Python string helpers on unit sequences.                                *)
(***************************************************************************)
\* text[a:b] for 0 <= a, 0 <= b (Python clamps b to the length)
Slice(t, a, b) ==
    LET e == Min(b, Len(t))
    IN  IF a >= e THEN << >> ELSE SubSeq(t, a + 1, e)

\* bool(text.strip()): does the text hold a non-whitespace unit
\* the test of a bare `if chunk:` (only the empty string is false)
IsBlank_emptyonly(t) == t = << >>

IsBlank(t) == \A i \in 1..Len(t) : t[i] = WS

\* text.strip()
Strip(t) ==
    LET nz == {i \in 1..Len(t) : t[i] # WS}
    IN  IF nz = {} THEN << >>
        ELSE SubSeq(t, CHOOSE i \in nz : \A j \in nz : i <= j,
                       CHOOSE i \in nz : \A j \in nz : i >= j)

\* text.split(): the whitespace-separated words
RECURSIVE SplitWords(_)
SplitWords(t) ==
    IF t = << >> THEN << >>
    ELSE IF Head(t) = WS THEN SplitWords(Tail(t))
    ELSE <<Head(t)>> \o SplitWords(Tail(t))

\* text.split(sep) for a one-unit separator: the pieces between separators
RECURSIVE SplitOn(_, _)
SplitOn(t, sep) ==
    LET hits == {i \in 1..Len(t) : t[i] = sep}
    IN  IF hits = {} THEN <<t>>
        ELSE LET i == CHOOSE h \in hits : \A j \in hits : h <= j
             IN  <<SubSeq(t, 1, i - 1)>> \o SplitOn(SubSeq(t, i + 1, Len(t)), sep)

\* sep.join(parts)
RECURSIVE Join(_, _)
Join(parts, sep) ==
    IF parts = << >> THEN << >>
    ELSE IF Len(parts) = 1 THEN parts[1]
    ELSE parts[1] \o sep \o Join(Tail(parts), sep)

\* pat in text, for a pattern of several units
ContainsSeq(t, pat) ==
    \E i \in 0..(Len(t) - Len(pat)) : SubSeq(t, i + 1, i + Len(pat)) = pat

\* word in text, for a one-unit word
HasUnit(t, u) == \E i \in 1..Len(t) : t[i] = u

\* text.replace(pat, ""): every non-overlapping occurrence removed, left to
\* right
RECURSIVE RemoveAll(_, _)
RemoveAll(t, pat) ==
    IF pat = << >> \/ Len(t) < Len(pat) THEN t
    ELSE IF SubSeq(t, 1, Len(pat)) = pat
         THEN RemoveAll(SubSeq(t, Len(pat) + 1, Len(t)), pat)
         ELSE <<Head(t)>> \o RemoveAll(Tail(t), pat)

Last(q) == q[Len(q)]

Range(q) == {q[i] : i \in 1..Len(q)}

VARIABLES
    \* ---- RecursiveCharacterTextSplitter.split_text activation ----
    sp_pc,          \* "idle" | "call" | "loop" | "return"
    sp_text,        \* the text argument (truncated at entry)
    sp_size,        \* self.chunk_size
    sp_overlap,     \* self.chunk_overlap
    sp_len,         \* text_length
    sp_start,       \* start
    sp_chunks,      \* chunks
    sp_starts,      \* history: start offset of every emitted chunk
    sp_tick,        \* history: parity of the number of loop iterations run
    \* ---- DocumentProcessor ----
    dp_size,        \* self.text_splitter.chunk_size
    dp_overlap,     \* self.text_splitter.chunk_overlap
    \* ---- the Chroma persist directory ----
    store,          \* collection name -> sequence of stored segments
    \* ---- RAGService ----
    vector_stores,  \* self.vector_stores: session id -> handle | NoHandle
    embeddings_initialized,  \* self._embeddings_initialized
    llm,            \* self.llm: "None" | "Endpoint" | "Hub" | "Pipeline"
    llm_initialized,         \* self._llm_initialized
    llm_repo_id,    \* self.llm_repo_id is set
    \* ---- process environment ----
    hf_api_key,     \* HUGGINGFACE_API_KEY is set
    local_loadable, \* history: the local model would load ("unknown" before
                    \* _init_llm ran)
    \* ---- history of the ingestions ----
    offered,        \* session id -> segments add_documents was called with
    ingested,       \* session id -> segments of the add_documents calls that
                    \* returned without raising
    \* ---- observation of the last finished call ----
    last,
    \* ---- the arguments of the generation under study (SpecGen) ----
    gen_in,
    \* ---- the relational database and the HTTP surface (main.py) ----
    sessions,       \* ids of the ChatSession rows
    messages,       \* session id -> roles of its Message rows, in order
    files,          \* session id -> number of UploadedFile rows
    http,           \* the last HTTP response
    hung,           \* a handler entered a loop that never returns
    \* ---- the asyncio event loop of the process ----
    tasks,          \* task id -> the coroutine of one request: its kind,
                    \* session, position, and its locals vector_store, docs
    running         \* the task that holds the event loop, or "none"

spvars == <<sp_pc, sp_text, sp_size, sp_overlap, sp_len, sp_start, sp_chunks,
            sp_starts, sp_tick>>

dpvars == <<dp_size, dp_overlap>>

ragvars == <<store, vector_stores, embeddings_initialized, llm,
             llm_initialized, llm_repo_id, hf_api_key, local_loadable>>

histvars == <<offered, ingested>>

dbvars == <<sessions, messages, files, http, hung>>

loopvars == <<tasks, running>>

vars == <<spvars, dpvars, ragvars, histvars, last, gen_in, dbvars, loopvars>>

(***************************************************************************)
(* split_text, lines 16-52 of document_processor.py                        *)
(***************************************************************************)
\* the entry of split_text without the truncation of lines 27-30
SplitEntry_untruncated(text, size) ==
    [text |-> text, len |-> Len(text), start |-> 0, chunks |-> << >>,
     starts |-> << >>, done |-> FALSE]

\* lines 18-30: locals and the truncation of an over-long text
SplitEntry(text, size) ==
    LET max_text_length == size * max_chunks
        trunc == Len(text) > max_text_length
    IN  [text   |-> IF trunc THEN Slice(text, 0, max_text_length) ELSE text,
         len    |-> IF trunc THEN max_text_length ELSE Len(text),
         start  |-> 0,
         chunks |-> << >>,
         starts |-> << >>,
         done   |-> FALSE]

\* line 32: the while condition
SplitCond(st) == st.start < st.len /\ Len(st.chunks) < max_chunks

\* line 41: start = end - self.chunk_overlap
NextStart(end, overlap) == end - overlap

\* lines 33-50: one iteration of the loop body
SplitBody(st, size, overlap) ==
    LET end   == Min(st.start + size, st.len)
        chunk == Slice(st.text, st.start, end)
        emit  == ~IsBlank(chunk)
        s1    == NextStart(end, overlap)
        brk   == s1 >= st.len
        s2    == IF s1 <= 0 THEN end ELSE s1
        s3    == IF s2 >= end THEN end ELSE s2
    IN  [st EXCEPT !.chunks = IF emit THEN Append(@, chunk) ELSE @,
                   !.starts = IF emit THEN Append(@, st.start) ELSE @,
                   !.start  = IF brk THEN s1 ELSE s3,
                   !.done   = brk]

SplitState == [text |-> sp_text, len |-> sp_len, start |-> sp_start,
               chunks |-> sp_chunks, starts |-> sp_starts,
               done |-> sp_pc = "return"]

\* the call: lines 18-30
SplitCall ==
    /\ sp_pc = "call"
    /\ LET st == SplitEntry(sp_text, sp_size)
       IN  /\ sp_text' = st.text
           /\ sp_len' = st.len
           /\ sp_start' = st.start
           /\ sp_chunks' = st.chunks
           /\ sp_starts' = st.starts
    /\ sp_pc' = "loop"
    /\ UNCHANGED <<sp_size, sp_overlap, sp_tick>>
    /\ UNCHANGED <<dpvars, ragvars, histvars, last, gen_in, loopvars, dbvars>>

\* one loop iteration: lines 32-50
SplitIter ==
    /\ sp_pc = "loop"
    /\ SplitCond(SplitState)
    /\ LET st == SplitBody(SplitState, sp_size, sp_overlap)
       IN  /\ sp_start' = st.start
           /\ sp_chunks' = st.chunks
           /\ sp_starts' = st.starts
           /\ sp_pc' = IF st.done THEN "return" ELSE "loop"
    /\ sp_tick' = 1 - sp_tick
    /\ UNCHANGED <<sp_text, sp_size, sp_overlap, sp_len>>
    /\ UNCHANGED <<dpvars, ragvars, histvars, last, gen_in, loopvars, dbvars>>

\* the while condition is false: line 52
SplitReturn ==
    /\ sp_pc = "loop"
    /\ ~SplitCond(SplitState)
    /\ sp_pc' = "return"
    /\ UNCHANGED <<sp_text, sp_size, sp_overlap, sp_len, sp_start, sp_chunks,
                   sp_starts, sp_tick>>
    /\ UNCHANGED <<dpvars, ragvars, histvars, last, gen_in, loopvars, dbvars>>

(***************************************************************************)
(* Vocabulary of the service model.  Slice lengths of the source are in    *)
(* characters; here one unit stands for 100 characters.                    *)
(***************************************************************************)
\* str.lower() on one unit
LowerUnit(u) ==
    CASE u = "Hi" -> "hi"
      [] u = "Where" -> "where"
      [] u = "Mumbai" -> "mumbai"
      [] u = "Bengaluru" -> "bengaluru"
      [] u = "Pin" -> "pin"
      [] u = "Click" -> "click"
      [] OTHER -> u

\* str.lower()
Lower(t) == [i \in 1..Len(t) |-> LowerUnit(t[i])]

\* units that are not a word of two or more letters
NonAlpha == {WS, ".", "a", "Answer:", "Context:", "Question:", "..."}
\* units of at most two characters
ShortUnits == {WS, ".", "a", "hi", "Hi", "in", "is"}

\* context[:1000] of the reply built without a model (rag_service.py:330)
NoModelExcerpt == 10
\* content[:300] of the best matching segment (rag_service.py:668)
BestExcerpt == 3
\* context[:500] of the final fallback (rag_service.py:672)
ContextExcerpt == 5
\* content[:100] of the summary branch (rag_service.py:648)
SummaryExcerpt == 1

Ellipsis == <<"...">>

\* fixed replies
NoDocsReply ==
    <<"I don't have any documents to reference yet. Please upload a document first.">>
ErrorReply ==
    <<"I encountered an error processing your query. Please try again.">>
GreetingReply ==
    <<"Hello! I'm here to help you with questions about the uploaded documents. What would you like to know?">>
BengaluruReply ==
    <<"Based on the documents, the location is Bengaluru (Bangalore).">>
NoInfoReply ==
    <<"I have the documents, but I couldn't find specific information to answer your question. Could you rephrase it?">>
BasedOn == <<"Based on the documents: ">>
BasedOnLocation == <<"Based on the documents, the location is ">>
Dot == <<".">>

\* "\n\n".join(doc.page_content for doc in docs)
RECURSIVE Contents(_)
Contents(docs) ==
    IF docs = << >> THEN << >>
    ELSE <<Head(docs).content>> \o Contents(Tail(docs))

\* a context with nothing between the segments
BuildContext_nosep(docs) == Join(Contents(docs), << >>)

\* line 315
BuildContext(docs) == Join(Contents(docs), <<WS>>)

(***************************************************************************)
(* _generate_smart_fallback, rag_service.py:582-674                        *)
(***************************************************************************)
\* a greetings list without the informal tokens
Greetings_formal == {<<"hello">>, <<"greetings">>, <<"good", WS, "morning">>,
                     <<"good", WS, "afternoon">>, <<"good", WS, "evening">>}

\* line 588
Greetings == {<<"hi">>, <<"hello">>, <<"hey">>, <<"greetings">>,
              <<"good", WS, "morning">>, <<"good", WS, "afternoon">>,
              <<"good", WS, "evening">>}

\* any(word in text for word in words), words given as unit sequences
AnyIn(text, words) == \E w \in words : ContainsSeq(text, w)

\* lines 588-589
IsGreeting(query) ==
    LET query_lower == Strip(Lower(query))
        query_words == SplitWords(query_lower)
    IN  \/ query_lower \in Greetings
        \/ /\ Len(query_words) <= 2
           /\ \E i \in 1..Len(query_words) : <<query_words[i]>> \in Greetings

LocationWords == {<<"location">>, <<"where">>, <<"place">>, <<"city">>,
                  <<"address">>}
CompanyWords == {<<"company">>, <<"what", WS, "does">>, <<"description">>,
                 <<"about">>}
RoleWords == {<<"role">>, <<"job">>, <<"position">>, <<"responsibility">>,
              <<"duties">>, <<"advisor">>}
SummaryWords == {<<"short">>, <<"brief">>, <<"summary">>, <<"summarize">>}

\* line 601: re.search(r'\b(based in|located in|in)\s+([A-Z][a-z]+(?:\s+[A-Z][a-z]+)?)',
\* content, re.IGNORECASE); the result is group(2) or << >> when no match
LocationMatch(content) ==
    LET hits == {i \in 1..(Len(content) - 2) :
                    /\ LowerUnit(content[i]) = "in"
                    /\ content[i + 1] = WS
                    /\ content[i + 2] \notin NonAlpha}
    IN  IF hits = {} THEN << >>
        ELSE LET i == CHOOSE h \in hits : \A j \in hits : h <= j
                 two == /\ i + 4 <= Len(content)
                        /\ content[i + 3] = WS
                        /\ content[i + 4] \notin NonAlpha
             IN  IF two THEN SubSeq(content, i + 2, i + 4)
                 ELSE <<content[i + 2]>>

\* lines 595-603: the answer of one segment, << >> when it has none
LocationAnswer(doc) ==
    LET content == Lower(doc.content)
    IN  IF HasUnit(content, "bengaluru") \/ HasUnit(content, "bangalore")
        THEN BengaluruReply
        ELSE IF LocationMatch(doc.content) # << >>
             THEN BasedOnLocation \o LocationMatch(doc.content) \o Dot
             ELSE << >>

\* [sentence.strip() for sentence in sentences if cond(sentence)]
RECURSIVE CompanySentences(_)
CompanySentences(sentences) ==
    IF sentences = << >> THEN << >>
    ELSE LET sl == Lower(Head(sentences))
             keep ==
                 /\ \/ ContainsSeq(sl, <<"pin", WS, "click">>)
                    \/ (HasUnit(sl, "company") /\ ~HasUnit(sl, "role"))
                 /\ AnyIn(sl, {<<"tech">>, <<"real", WS, "estate">>,
                               <<"advisory">>, <<"property">>, <<"firm">>,
                               <<"bangalore">>, <<"developers">>})
         IN  (IF keep THEN <<Strip(Head(sentences))>> ELSE << >>)
                 \o CompanySentences(Tail(sentences))

\* lines 607-629: the answer of one segment, << >> when it has none
CompanyAnswer(doc) ==
    LET content == doc.content
        content_lower == Lower(content)
        sentences == SplitOn(content, ".")
        company_sentences == CompanySentences(sentences)
        named == {i \in 1..Len(sentences) :
                     ContainsSeq(Lower(sentences[i]), <<"pin", WS, "click">>)}
    IN  IF /\ ContainsSeq(content_lower, <<"pin", WS, "click">>)
           /\ AnyIn(content_lower,
                    {<<"tech">>, <<"real", WS, "estate">>, <<"advisory">>,
                     <<"property", WS, "advisory", WS, "firm">>})
        THEN IF company_sentences # << >>
             THEN BasedOn
                    \o Join(SubSeq(company_sentences, 1,
                                   Min(3, Len(company_sentences))),
                            <<".", WS>>)
                    \o Dot
             ELSE IF named # {}
                  THEN BasedOn
                         \o Strip(sentences[CHOOSE i \in named :
                                               \A j \in named : i <= j])
                         \o Dot
                  ELSE << >>
        ELSE << >>

\* lines 633-640: the answer of one segment, << >> when it has none
RoleAnswer(doc) ==
    LET content == doc.content
        sentences == SplitOn(content, ".")
        hits == {i \in 1..Len(sentences) :
                    \/ ContainsSeq(Lower(sentences[i]),
                                   <<"property", WS, "advisor">>)
                    \/ HasUnit(Lower(sentences[i]), "responsible")}
    IN  IF /\ \/ ContainsSeq(Lower(content), <<"property", WS, "advisor">>)
              \/ HasUnit(Lower(content), "role")
           /\ hits # {}
        THEN BasedOn
               \o Strip(sentences[CHOOSE i \in hits : \A j \in hits : i <= j])
               \o Dot
        ELSE << >>

\* the for loops over docs: the answer of the first segment, in order, that
\* has one (answers[i] is the answer of docs[i])
FirstAnswer(answers) ==
    LET hits == {i \in 1..Len(answers) : answers[i] # << >>}
    IN  IF hits = {} THEN << >>
        ELSE answers[CHOOSE i \in hits : \A j \in hits : i <= j]

\* lines 644-650
RECURSIVE SummaryParts(_)
SummaryParts(docs) ==
    IF docs = << >> THEN << >>
    ELSE LET content == Head(docs).content
             first_sentence ==
                 IF HasUnit(content, ".") THEN SplitOn(content, ".")[1]
                 ELSE Slice(content, 0, SummaryExcerpt)
         IN  <<Strip(first_sentence)>> \o SummaryParts(Tail(docs))

\* line 660: the score of one segment
RECURSIVE Score(_, _)
Score(query_words, content_lower) ==
    IF query_words = << >> THEN 0
    ELSE (IF /\ HasUnit(content_lower, Head(query_words))
             /\ Head(query_words) \notin ShortUnits
          THEN 1 ELSE 0) + Score(Tail(query_words), content_lower)

\* the loop of lines 657-663 with `score >= best_score`: the last segment
\* wins a tie
RECURSIVE BestMatch_last(_, _, _, _, _)
BestMatch_last(docs, query_words, i, best, best_score) ==
    IF i > Len(docs) THEN [match |-> best, score |-> best_score]
    ELSE LET sc == Score(query_words, Lower(docs[i].content))
         IN  IF sc >= best_score
             THEN BestMatch_last(docs, query_words, i + 1, i, sc)
             ELSE BestMatch_last(docs, query_words, i + 1, best, best_score)

\* lines 654-663: index of the best segment (0: none) and its score
RECURSIVE BestMatch(_, _, _, _, _)
BestMatch(docs, query_words, i, best, best_score) ==
    IF i > Len(docs) THEN [match |-> best, score |-> best_score]
    ELSE LET sc == Score(query_words, Lower(docs[i].content))
         IN  IF sc > best_score
             THEN BestMatch(docs, query_words, i + 1, i, sc)
             ELSE BestMatch(docs, query_words, i + 1, best, best_score)

\* text[:n] followed by '...' when the text is longer than n
Excerpt(text, n) ==
    Slice(text, 0, n) \o (IF Len(text) > n THEN Ellipsis ELSE << >>)

\* lines 652-674
DefaultAnswer(query, docs, context) ==
    LET query_words == SplitWords(Strip(Lower(query)))
        bm == BestMatch(docs, query_words, 1, 0, 0)
    IN  IF bm.match # 0 /\ bm.score > 0
        THEN BasedOn \o Excerpt(docs[bm.match].content, BestExcerpt)
        ELSE IF context # << >>
             THEN BasedOn \o Excerpt(context, ContextExcerpt)
             ELSE NoInfoReply

\* a heuristic tier that greets until self._llm_initialized is set
SmartFallback_stateful(query, docs, context) ==
    IF llm_initialized THEN DefaultAnswer(query, docs, context)
    ELSE GreetingReply

\* lines 582-674
SmartFallback(query, docs, context) ==
    LET query_lower == Strip(Lower(query))
        branch(ans) == IF ans # << >> THEN ans
                       ELSE DefaultAnswer(query, docs, context)
    IN  IF IsGreeting(query) THEN GreetingReply
        ELSE IF AnyIn(query_lower, LocationWords)
             THEN branch(FirstAnswer([i \in 1..Len(docs) |->
                                       LocationAnswer(docs[i])]))
        ELSE IF AnyIn(query_lower, CompanyWords) /\ ~HasUnit(query_lower, "role")
             THEN branch(FirstAnswer([i \in 1..Len(docs) |->
                                       CompanyAnswer(docs[i])]))
        ELSE IF AnyIn(query_lower, RoleWords)
             THEN branch(FirstAnswer([i \in 1..Len(docs) |->
                                       RoleAnswer(docs[i])]))
        ELSE IF AnyIn(query_lower, SummaryWords)
             THEN BasedOn
                    \o Join(SummaryParts(SubSeq(docs, 1, Min(2, Len(docs)))),
                            <<".", WS>>)
                    \o Dot
        ELSE DefaultAnswer(query, docs, context)

(***************************************************************************)
(* _init_llm, rag_service.py:105-183                                       *)
(***************************************************************************)
\* What the process can construct.  endpoint, hub: the remote client class
\* is "absent" (not imported), "raises" on construction or is "ok"; local:
\* transformers is "absent", or loading the GPT-2 pipeline "raises" or is "ok".
\* Lines 25-38: when HuggingFaceEndpoint is imported, HuggingFaceHub and
\* HuggingFacePipeline stay None, so wrapping a loaded pipeline raises.
LLMEnvs ==
    {e \in [endpoint : {"absent", "raises", "ok"},
            hub      : {"absent", "raises", "ok"},
            local    : {"absent", "raises", "ok"}] :
        e.endpoint # "absent" => (e.hub = "absent" /\ e.local # "ok")}

\* lines 117-183: the model selected and whether llm_repo_id was stored
InitLLM(key, env) ==
    IF key /\ env.endpoint = "ok"
    THEN [llm |-> "Endpoint", repo_id |-> FALSE]
    ELSE IF key /\ env.hub = "ok"
    THEN [llm |-> "Hub", repo_id |-> TRUE]
    ELSE [llm |-> IF env.local = "ok" THEN "Pipeline" ELSE "None",
          repo_id |-> key /\ env.hub = "raises"]

\* a generator that loads its model again for every request
EnsureLLM_reload(initialized, llmv, repo, key, env) == InitLLM(key, env)

\* lines 317-319 and 107-108: _init_llm runs only while _llm_initialized is
\* unset; afterwards the model object of the first call is used
EnsureLLM(initialized, llmv, repo, key, env) ==
    IF initialized THEN [llm |-> llmv, repo_id |-> repo]
    ELSE InitLLM(key, env)

(***************************************************************************)
(* _generate_with_llm, rag_service.py:341-580                              *)
(***************************************************************************)
Preamble ==
    <<"Use the following pieces of context to answer the question. If you don't know the answer based on the context, just say that you don't know, don't try to make up an answer.">>

\* lines 352-368: prompt.format(context=context, question=query)
FullPrompt(context, query) ==
    Preamble \o <<WS, "Context:", WS>> \o context
             \o <<WS, "Question:", WS>> \o query \o <<WS, "Answer:", WS>>

\* what a model call returns: nothing, an answer, or the prompt followed by
\* an answer
OutKinds == {"empty", "ans", "echo"}
MethodOutcomes == {"fail"} \cup OutKinds
\* a POST to an endpoint: warm = the first status is 503 (model loading) and
\* out is the outcome of the retry; "fail" is a status other than 200 or an
\* exception
EndpointOutcomes == [warm : BOOLEAN, out : MethodOutcomes]

OutputText(kind, prompt) ==
    CASE kind = "empty" -> << >>
      [] kind = "ans" -> <<"ans">>
      [] kind = "echo" -> prompt \o <<"ans">>

None == [none |-> TRUE, text |-> << >>]
Some(t) == [none |-> FALSE, text |-> t]

\* a call convention tried whatever the earlier ones returned
MethodStep_always(st, name, outcome, prompt) ==
    [st EXCEPT !.calls = Append(@, name),
               !.resp = IF outcome = "fail" THEN st.resp
                        ELSE Some(OutputText(outcome, prompt))]

\* lines 375-396 and 534-539: one call convention of self.llm, tried only
\* while response is None
MethodStep(st, name, outcome, prompt) ==
    IF ~st.resp.none THEN st
    ELSE [st EXCEPT !.calls = Append(@, name),
                    !.resp = IF outcome = "fail" THEN None
                             ELSE Some(OutputText(outcome, prompt))]

\* lines 484-485 / 512-513: the echoed prompt is removed
StripPrompt(text, prompt) ==
    IF ContainsSeq(text, prompt) THEN Strip(RemoveAll(text, prompt)) ELSE text

\* an endpoint retried at once, without the wait
EndpointStep_nowait(st, name, o, prompt) ==
    IF st.brk THEN st
    ELSE IF ~o.warm
    THEN IF o.out = "fail"
         THEN [st EXCEPT !.calls = Append(@, name)]
         ELSE LET text == OutputText(o.out, prompt)
              IN  [st EXCEPT !.calls = Append(@, name),
                             !.resp = IF text # << >>
                                      THEN Some(StripPrompt(text, prompt))
                                      ELSE Some(text),
                             !.brk = text # << >>]
    ELSE IF o.out = "fail"
         THEN [st EXCEPT !.calls = @ \o <<name, name>>]
         ELSE LET text == OutputText(o.out, prompt)
                  resp == IF text # << >> THEN StripPrompt(text, prompt)
                          ELSE text
              IN  [st EXCEPT !.calls = @ \o <<name, name>>,
                             !.resp = Some(resp),
                             !.brk = resp # << >>]

\* lines 453-521: one endpoint of the direct API loop; brk = the loop was left
EndpointStep_retrying(st, name, o, prompt) ==
    IF st.brk THEN st
    ELSE IF ~o.warm
    THEN IF o.out = "fail"
         THEN [st EXCEPT !.calls = Append(@, name)]
         ELSE LET text == OutputText(o.out, prompt)
              IN  [st EXCEPT !.calls = Append(@, name),
                             !.resp = IF text # << >>
                                      THEN Some(StripPrompt(text, prompt))
                                      ELSE Some(text),
                             !.brk = text # << >>]
    ELSE IF o.out = "fail"
         THEN [st EXCEPT !.calls = @ \o <<name, "sleep", name, "sleep", name>>]
         ELSE LET text == OutputText(o.out, prompt)
                  resp == IF text # << >> THEN StripPrompt(text, prompt)
                          ELSE text
              IN  [st EXCEPT !.calls = @ \o <<name, "sleep", name>>,
                             !.resp = Some(resp),
                             !.brk = resp # << >>]

EndpointStep(st, name, o, prompt) ==
    IF st.brk THEN st
    ELSE IF ~o.warm
    THEN \* lines 462-489
         IF o.out = "fail"
         THEN [st EXCEPT !.calls = Append(@, name)]
         ELSE LET text == OutputText(o.out, prompt)
              IN  [st EXCEPT !.calls = Append(@, name),
                             !.resp = IF text # << >>
                                      THEN Some(StripPrompt(text, prompt))
                                      ELSE Some(text),
                             !.brk = text # << >>]
    ELSE \* lines 491-516: wait 10 seconds, post again
         IF o.out = "fail"
         THEN [st EXCEPT !.calls = @ \o <<name, "sleep", name>>]
         ELSE LET text == OutputText(o.out, prompt)
                  resp == IF text # << >> THEN StripPrompt(text, prompt)
                          ELSE text
              IN  [st EXCEPT !.calls = @ \o <<name, "sleep", name>>,
                             !.resp = Some(resp),
                             !.brk = resp # << >>]

\* line 401: the direct API block reads the credential from the process
\* environment whenever the calls before it left no response
ApiKeyReads(st) == IF st.resp.none THEN <<"_generate_with_llm">> ELSE << >>

\* a direct API block that posts without looking at the credential
ApiBlock_unguarded(st, key, api, prompt) ==
    IF ~st.resp.none THEN st
    ELSE LET s0 == [st EXCEPT !.resp = None, !.brk = FALSE,
                              !.reads = ApiKeyReads(st)]
             s1 == EndpointStep(s0, "post1", api[1], prompt)
             s2 == EndpointStep(s1, "post2", api[2], prompt)
         IN  EndpointStep(s2, "post3", api[3], prompt)

\* lines 399-531: the direct API block
ApiBlock(st, key, api, prompt) ==
    IF ~st.resp.none THEN st
    ELSE IF ~key THEN [st EXCEPT !.reads = ApiKeyReads(st)]
    ELSE LET s0 == [st EXCEPT !.resp = None, !.brk = FALSE,
                              !.reads = ApiKeyReads(st)]
             s1 == EndpointStep(s0, "post1", api[1], prompt)
             s2 == EndpointStep(s1, "post2", api[2], prompt)
         IN  EndpointStep(s2, "post3", api[3], prompt)

\* lines 542-546
FallbackStep(st, query, docs) ==
    IF ~st.resp.none THEN st
    ELSE [st EXCEPT !.calls = Append(@, "heuristic"),
                    !.resp = Some(SmartFallback(query, docs,
                                                BuildContext(docs)))]

\* lines 562-568
CleanUp(response_text) ==
    LET t1 == IF HasUnit(response_text, "Answer:")
              THEN Strip(Last(SplitOn(response_text, "Answer:")))
              ELSE response_text
        parts == SplitOn(t1, "Question:")
    IN  IF HasUnit(t1, "Context:") /\ Len(parts) > 1
        THEN Strip(Last(parts))
        ELSE t1

\* the outcomes of the calls a request may make, in the order of the code
GenOutcomes ==
    [invoke : MethodOutcomes, predict : MethodOutcomes, run : MethodOutcomes,
     api : [1..3 -> EndpointOutcomes], call : MethodOutcomes]

\* lines 548-570: the text returned, with the calls and the credential reads
\* made on the way
Returned(st) ==
    [text |-> CleanUp(st.resp.text), calls |-> st.calls, reads |-> st.reads]

\* lines 341-570, for self.llm # None; the result is the text returned and
\* the calls made
GenerateWithLLM(query, docs, key, oc) ==
    LET prompt == FullPrompt(BuildContext(docs), query)
        s0 == [resp |-> None, calls |-> << >>, brk |-> FALSE,
               reads |-> << >>]
        s1 == MethodStep(s0, "invoke", oc.invoke, prompt)
        s2 == MethodStep(s1, "predict", oc.predict, prompt)
        s3 == MethodStep(s2, "run", oc.run, prompt)
        s4 == ApiBlock(s3, key, oc.api, prompt)
        s5 == MethodStep(s4, "call", oc.call, prompt)
        s6 == FallbackStep(s5, query, docs)
    IN  Returned(s6)

ProcessingReply ==
    <<"I'm processing your question. Please try again in a moment.">>

\* lines 572-580: the text returned when an exception leaves the try block
ExceptReply(query, docs) ==
    IF docs # << >> THEN SmartFallback(query, docs, BuildContext(docs))
    ELSE ProcessingReply

\* a reply that repeats the question and leaves the context out
NoModelReply_nocontext(query, context) ==
    <<"Based on the documents and your question '">> \o query \o <<"'">>

\* line 330: the reply when no model is configured
NoModelReply(query, context) ==
    <<"Based on the documents and your question '">> \o query
        \o <<"':", WS>> \o Excerpt(context, NoModelExcerpt)

\* line 312: doc.metadata.get("source", "Unknown")
SourceOf(doc) == IF "source" \in DOMAIN doc THEN doc.source ELSE "Unknown"

\* line 312: the set of sources of the retrieved segments
Sources(docs) == {SourceOf(docs[i]) : i \in 1..Len(docs)}

\* lines 311-332: the answer for a non-empty list of retrieved segments
\* lines 312-326: the reply and the sources get_response returns
Answer(g, docs) ==
    [reply |-> g.text, sources |-> Sources(docs), calls |-> g.calls,
     reads |-> g.reads]

AnswerFrom(query, docs, llmv, key, oc) ==
    IF llmv # "None"
    THEN Answer(GenerateWithLLM(query, docs, key, oc), docs)
    ELSE [reply |-> NoModelReply(query, BuildContext(docs)),
          sources |-> Sources(docs), calls |-> << >>, reads |-> << >>]

\* the record of a call with the answer a filled in
WithAnswer(res, a) ==
    [res EXCEPT !.reply = a.reply, !.sources = a.sources, !.calls = a.calls,
                !.reads = a.reads]

\* the tier a call belongs to
TierOf(call, llmv) ==
    CASE call = "heuristic" -> "Heuristic"
      [] call \in {"post1", "post2", "post3", "sleep"} -> "Remote"
      [] OTHER -> IF llmv = "Pipeline" THEN "Local" ELSE "Remote"

Tiers(calls, llmv) == [i \in 1..Len(calls) |-> TierOf(calls[i], llmv)]

\* an outcome record names no outcome for a call that is not made: the
\* outcomes of calls after the one that ends the chain are "fail"
Canonical(oc, key) ==
    LET F == [warm |-> FALSE, out |-> "fail"]
        methodsDone == oc.invoke # "fail" \/ oc.predict # "fail" \/ oc.run # "fail"
        brk(o) == (~o.warm /\ o.out \in {"ans", "echo"})
                    \/ (o.warm /\ o.out \in {"ans", "echo"})
        assigned(o) == o.out # "fail"
    IN  /\ oc.invoke # "fail" => oc.predict = "fail"
        /\ (oc.invoke # "fail" \/ oc.predict # "fail") => oc.run = "fail"
        /\ (methodsDone \/ ~key) => \A i \in 1..3 : oc.api[i] = F
        /\ brk(oc.api[1]) => (oc.api[2] = F /\ oc.api[3] = F)
        /\ brk(oc.api[2]) => oc.api[3] = F
        /\ (methodsDone \/ \E i \in 1..3 : assigned(oc.api[i]))
              => oc.call = "fail"

(***************************************************************************)
(* DocumentProcessor.process_text, document_processor.py:127-168           *)
(***************************************************************************)
\* DocumentProcessor.__init__ defaults: chunk_size=1000, chunk_overlap=200
DefaultChunkSize == 10
DefaultOverlap == 2
\* the caps of the retry: min(chunk_size // 2, 500), min(chunk_overlap // 2, 100)
DegradedSizeCap == 5
DegradedOverlapCap == 1
\* text[:100000] of the retry
DegradedPrefix == 1000
\* chunks[:1000] of the retry, scaled like max_chunks
degraded_max_chunks == 2

\* split_text run to its return; hang = the loop never leaves (a run of more
\* than text_length + 1 iterations that emit nothing revisits a state)
RECURSIVE RunSplit(_, _, _, _)
RunSplit(st, size, overlap, idle) ==
    IF st.done \/ ~SplitCond(st) THEN [hang |-> FALSE, chunks |-> st.chunks]
    ELSE IF idle > st.len + 1 THEN [hang |-> TRUE, chunks |-> st.chunks]
    ELSE LET n == SplitBody(st, size, overlap)
         IN  RunSplit(n, size, overlap,
                      IF n.chunks = st.chunks THEN idle + 1 ELSE 0)

SplitText(text, size, overlap) ==
    RunSplit(SplitEntry(text, size), size, overlap, 0)

\* lines 138-147 / 158-167: the chunks wrapped with their metadata
ChunkDocs(chunks, kept, source) ==
    [i \in 1..kept |->
        [content |-> chunks[i], source |-> source, chunk_index |-> i - 1,
         total_chunks |-> Len(chunks)]]

\* oom: "no" (no MemoryError), "once" (the first split_text raises
\* MemoryError), "twice" (the retry raises it too).  The result carries the
\* splitter parameters the call leaves behind.
ProcessText(text, source, size, overlap, oom) ==
    IF oom = "no"
    THEN LET r == SplitText(text, size, overlap)
             kept == Min(Len(r.chunks), max_chunks)
         IN  [hang |-> r.hang, raised |-> FALSE,
              docs |-> ChunkDocs(SubSeq(r.chunks, 1, kept), kept, source),
              size |-> size, overlap |-> overlap]
    ELSE LET size2 == Min(size \div 2, DegradedSizeCap)
             overlap2 == Min(overlap \div 2, DegradedOverlapCap)
             r == SplitText(Slice(text, 0, DegradedPrefix), size2, overlap2)
             kept == Min(Len(r.chunks), degraded_max_chunks)
         IN  [hang |-> oom = "once" /\ r.hang, raised |-> oom = "twice",
              docs |-> IF oom = "twice" THEN << >>
                       ELSE ChunkDocs(r.chunks, kept, source),
              size |-> size2, overlap |-> overlap2]

(***************************************************************************)
(* The Chroma collections and RAGService, rag_service.py:71-339            *)
(***************************************************************************)
SessionIds == {"s1", "s2"}

\* every session id named by the one collection of session s1
CollectionName_shared(s) == <<"session_", "s1">>

\* line 192 / 249: collection_name = f"session_{session_id}"
CollectionName(s) == <<"session_", s>>

Collections == {CollectionName(s) : s \in SessionIds}

NoHandle == [open |-> FALSE, coll |-> <<"", "">>, seen |-> 0]

\* Chroma(collection_name=..., persist_directory=...): a handle that sees
\* the collection as stored at the time it is opened
OpenHandle(st, coll) == [open |-> TRUE, coll |-> coll, seen |-> Len(st[coll])]

\* the segments a handle's searches can return
Visible(st, h) == SubSeq(st[h.coll], 1, Min(h.seen, Len(st[h.coll])))

\* lines 185-210.  emb_fail: loading the embeddings model raises; opn: the
\* Chroma constructor succeeds ("ok"), raises once and then succeeds
\* ("retry_ok"), or raises twice ("fail").
GetVectorStore(vs, emb, st, s, emb_fail, opn) ==
    IF ~emb /\ emb_fail
    THEN [raised |-> TRUE, emb |-> FALSE, vs |-> vs, opens |-> 0]
    ELSE IF vs[s].open
    THEN [raised |-> FALSE, emb |-> TRUE, vs |-> vs, opens |-> 0]
    ELSE IF opn = "fail"
    THEN [raised |-> TRUE, emb |-> TRUE, vs |-> vs, opens |-> 2]
    ELSE [raised |-> FALSE, emb |-> TRUE,
          vs |-> [vs EXCEPT ![s] = OpenHandle(st, CollectionName(s))],
          opens |-> IF opn = "ok" THEN 1 ELSE 2]

\* the cached handle kept after a write
Invalidate_keep(vs, s) == vs

\* the whole cache cleared after a write
Invalidate_all(vs, s) == [t \in DOMAIN vs |-> NoHandle]

\* lines 240-244: the cached handle is dropped after a successful write
Invalidate(vs, s) == [vs EXCEPT ![s] = NoHandle]

\* a write that replaces what the collection held
Written_replacing(st, coll, chunks) == [st EXCEPT ![coll] = chunks]

\* line 233, vector_store.add_documents(documents): the segments are
\* appended to the collection of the handle
Written(st, coll, chunks) == [st EXCEPT ![coll] = @ \o chunks]

OpenOutcomes == {"ok", "retry_ok", "fail"}
AddOutcomes == {"ok", "add_raises", "persist_raises"}
AddFaults == [emb_fail : BOOLEAN, opn : OpenOutcomes, add : AddOutcomes,
              stale : BOOLEAN]

NoResult == [op |-> "none", sid |-> "", query |-> << >>, raised |-> FALSE,
             reply |-> << >>,
             sources |-> {}, docs |-> << >>, calls |-> << >>, opens |-> 0,
             searches |-> << >>, added |-> 0, reads |-> << >>]

\* lines 212-263.  f.stale: the handle the write went through does not show
\* the written segments afterwards (seen only when persist() raised and the
\* handle stayed cached).
add_documents(chunks, s, f) ==
    LET g == GetVectorStore(vector_stores, embeddings_initialized, store, s,
                            f.emb_fail, f.opn)
        res == [NoResult EXCEPT !.op = "add_documents", !.sid = s,
                                !.opens = g.opens]
    IN  /\ embeddings_initialized' = g.emb
        /\ IF g.raised
           THEN /\ vector_stores' = g.vs
                /\ store' = store
                /\ last' = [res EXCEPT !.raised = TRUE]
           ELSE LET h == g.vs[s]
                    written == Written(store, h.coll, chunks)
                IN  CASE f.add = "add_raises" ->
                           /\ vector_stores' = g.vs
                           /\ store' = store
                           /\ last' = [res EXCEPT !.raised = TRUE]
                      [] f.add = "persist_raises" ->
                           /\ store' = written
                           /\ vector_stores' =
                                [g.vs EXCEPT ![s].seen =
                                    IF f.stale THEN @ ELSE Len(written[h.coll])]
                           /\ last' = [res EXCEPT !.raised = TRUE,
                                                  !.added = Len(chunks)]
                      [] OTHER ->
                           /\ store' = written
                           /\ vector_stores' = Invalidate(g.vs, s)
                           /\ last' = [res EXCEPT !.added = Len(chunks)]
    /\ UNCHANGED <<llm, llm_initialized, llm_repo_id, hf_api_key,
                   local_loadable>>

\* similarity_search / retriever.invoke with k results: the k best of the n
\* visible segments, in an order the embedding decides
Rankings(n, k) ==
    {r \in [1..Min(k, n) -> 1..n] : \A i, j \in 1..Min(k, n) : i # j => r[i] # r[j]}

\* search_kwargs={"k": 3}, similarity_search(query, k=3)
TopK == 3

SearchOutcomes == {"ok", "raise"}
\* an exception that no inner handler of get_response catches: none, one
\* raised while the sources and the context are built (lines 311-314), or
\* one that leaves _generate_with_llm (line 325)
LateOutcomes == {"no", "context", "generation"}
QueryFaults == [emb_fail : BOOLEAN, opn : OpenOutcomes,
                probe : SearchOutcomes, ranked : SearchOutcomes,
                plain : SearchOutcomes, late : {"no"}]

\* lines 272-277: the probe search ran and returned nothing
ProbeReportsEmpty(f, seen) == f.probe = "ok" /\ seen = << >>

\* giving up as soon as the ranked retrieval raises
RetrievalFailed_noretry(f) == f.ranked = "raise"

\* lines 294-304: the ranked retrieval raised and the plain search raised too
RetrievalFailed(f) == f.ranked = "raise" /\ f.plain = "raise"

\* an empty result taken for a context
NothingRetrieved_ignored(docs) == FALSE

\* lines 306-309: if not docs or len(docs) == 0
NothingRetrieved(docs) == docs = << >>

\* a get_response without its outer handler: the exception reaches the caller
Escaped_raising(res, docs, steps, at) ==
    [res EXCEPT !.docs = docs, !.raised = TRUE,
                !.searches = Append(steps, <<at, "raise">>)]

\* lines 333-339: the outer handler turns the exception into the fixed reply
\* with an empty list of sources
Escaped(res, docs, steps, at) ==
    [res EXCEPT !.docs = docs, !.reply = ErrorReply, !.sources = {},
                !.searches = Append(steps, <<at, "raise">>)]

\* lines 265-339.  rank: the ranking the search returns; env: what _init_llm
\* finds when it runs; oc: the outcomes of the model calls.
get_response(query, s, f, rank, env, oc) ==
    LET g == GetVectorStore(vector_stores, embeddings_initialized, store, s,
                            f.emb_fail, f.opn)
        res == [NoResult EXCEPT !.op = "get_response", !.sid = s,
                                !.query = query, !.opens = g.opens]
        nodocs(searches) == [res EXCEPT !.reply = NoDocsReply,
                                        !.searches = searches]
    IN  /\ embeddings_initialized' = g.emb
        /\ vector_stores' = g.vs
        /\ store' = store
        /\ hf_api_key' = hf_api_key
        /\ IF g.raised
           THEN /\ last' = [res EXCEPT !.raised = TRUE]
                /\ UNCHANGED <<llm, llm_initialized, llm_repo_id,
                               local_loadable>>
           ELSE LET seen == Visible(store, g.vs[s])
                    probed == <<<<"probe", f.probe>>>>
                    s1 == IF f.ranked = "ok"
                          THEN Append(probed, <<"ranked", "ok">>)
                          ELSE probed \o <<<<"ranked", "raise">>,
                                           <<"plain", f.plain>>>>
                    docs == [i \in 1..Len(rank) |-> seen[rank[i]]]
                IN  IF \/ ProbeReportsEmpty(f, seen)
                       \/ RetrievalFailed(f)
                       \/ NothingRetrieved(docs)
                    THEN /\ last' = nodocs(IF ProbeReportsEmpty(f, seen)
                                           THEN probed ELSE s1)
                         /\ UNCHANGED <<llm, llm_initialized, llm_repo_id,
                                        local_loadable>>
                    ELSE IF f.late = "context"
                    THEN /\ last' = Escaped(res, docs, s1, "context")
                         /\ UNCHANGED <<llm, llm_initialized, llm_repo_id,
                                        local_loadable>>
                    ELSE LET init == EnsureLLM(llm_initialized, llm,
                                               llm_repo_id, hf_api_key, env)
                         IN  /\ llm_initialized' = TRUE
                             /\ llm' = init.llm
                             /\ llm_repo_id' = init.repo_id
                             /\ local_loadable' =
                                  IF llm_initialized THEN local_loadable
                                  ELSE IF env.local = "ok" THEN "yes" ELSE "no"
                             /\ last' =
                                  IF f.late = "generation" /\ init.llm # "None"
                                  THEN Escaped(res, docs, s1, "generation")
                                  ELSE WithAnswer([res EXCEPT !.docs = docs,
                                                              !.searches = s1],
                                                  AnswerFrom(query, docs,
                                                             init.llm,
                                                             hf_api_key, oc))

(***************************************************************************)
(* The coroutines of concurrent requests.  The process runs one asyncio    *)
(* event loop (uvicorn.run, main.py:300): a coroutine that was resumed     *)
(* keeps the loop until it awaits something that suspends, or returns.     *)
(***************************************************************************)
TaskIds == {"t1", "t2"}

NoTask == [kind |-> "none", sid |-> "", pc |-> "none", h |-> NoHandle,
           docs |-> << >>]

\* the blocking calls of the two coroutines, were each of them awaited
Suspends_at_io(kind, pc) ==
    pc \in {"have_handle", "written", "persisted", "retrieved"}

\* pc is a position at which the coroutine gives the event loop back before
\* it returns.  add_documents (lines 212-263) holds no await; get_response
\* (lines 265-339) awaits only _generate_with_llm (line 325), which holds no
\* await either: the Chroma calls, requests.post and time.sleep block.
Suspends(kind, pc) == FALSE

(***************************************************************************)
(* Inputs of the service model                                             *)
(***************************************************************************)
\* most segments one collection holds in the model
MaxStore == 2

Doc1Text == <<"Bengaluru", ".">>
Doc2Text == <<"a">>
\* the document each session receives in the service specification
UploadOf(s) == IF s = "s1" THEN [text |-> Doc1Text, source |-> "doc1"]
               ELSE [text |-> Doc2Text, source |-> "doc2"]

\* the chunk lists handed to add_documents for session s: process_text of
\* its document, or an empty list
ChunkLists(s) ==
    {<< >>,
     ProcessText(UploadOf(s).text, UploadOf(s).source, DefaultChunkSize,
                 DefaultOverlap, "no").docs}

DefaultEnv == [endpoint |-> "absent", hub |-> "absent", local |-> "absent"]

Queries == {<<"where">>, <<"a">>, <<"hi">>}
\* the queries and the process environments tried in the service
\* specification
ServiceQueries == {<<"where">>}
ServiceEnvs == {DefaultEnv, [DefaultEnv EXCEPT !.hub = "ok"]}

NoEndpoint == [warm |-> FALSE, out |-> "fail"]
AllFail == [invoke |-> "fail", predict |-> "fail", run |-> "fail",
            api |-> [i \in 1..3 |-> NoEndpoint], call |-> "fail"]

\* the rankings tried in the service specification: the stored order and
\* its reverse
ServiceRankings(n) ==
    {r \in Rankings(n, TopK) :
        \/ \A i \in 1..Len(r) : r[i] = i
        \/ \A i \in 1..Len(r) : r[i] = n + 1 - i}

\* the model-call outcomes tried in the service specification
GenScenarios ==
    {AllFail,
     [AllFail EXCEPT !.invoke = "ans"]}

\* op: the endpoint; status: the HTTP status; input: the kind of upload
\* ("unsupported", "blank", "text"); added: segments the request wrote
NoResponse == [op |-> "none", sid |-> "", status |-> 0, input |-> "none",
               added |-> 0]

ServiceInit ==
    /\ dp_size = DefaultChunkSize
    /\ dp_overlap = DefaultOverlap
    /\ store = [c \in Collections |-> << >>]
    /\ vector_stores = [s \in SessionIds |-> NoHandle]
    /\ embeddings_initialized = FALSE
    /\ llm = "None"
    /\ llm_initialized = FALSE
    /\ llm_repo_id = FALSE
    /\ local_loadable = "unknown"
    /\ offered = [s \in SessionIds |-> {}]
    /\ ingested = [s \in SessionIds |-> {}]
    /\ last = NoResult
    /\ sessions = {}
    /\ messages = [s \in SessionIds |-> << >>]
    /\ files = [s \in SessionIds |-> 0]
    /\ http = NoResponse
    /\ hung = FALSE
    /\ tasks = [t \in TaskIds |-> NoTask]
    /\ running = "none"

SplitIdle ==
    /\ sp_pc = "idle"
    /\ sp_text = << >>
    /\ sp_size = DefaultChunkSize
    /\ sp_overlap = DefaultOverlap
    /\ sp_len = 0
    /\ sp_start = 0
    /\ sp_chunks = << >>
    /\ sp_starts = << >>
    /\ sp_tick = 0

NoGenInput == [query |-> << >>, docs |-> << >>, env |-> DefaultEnv,
               oc |-> AllFail]

(***************************************************************************)
(* The chunker specification: one activation of split_text                 *)
(***************************************************************************)
InitChunk ==
    /\ sp_pc = "call"
    /\ sp_text \in SeqsUpTo(Units, MaxLen)
    /\ sp_size \in 1..MaxChunkSize
    /\ sp_overlap \in 0..MaxOverlap
    /\ sp_len = 0
    /\ sp_start = 0
    /\ sp_chunks = << >>
    /\ sp_starts = << >>
    /\ sp_tick = 0
    /\ ServiceInit
    /\ hf_api_key = FALSE
    /\ gen_in = NoGenInput

NextChunk == SplitCall \/ SplitIter \/ SplitReturn

SpecChunk == InitChunk /\ [][NextChunk]_vars

\* the interpreter runs the loop: an enabled iteration is eventually taken
SpecChunkLive == SpecChunk /\ WF_vars(NextChunk)

ValidParams == sp_size > sp_overlap /\ sp_overlap >= 0

(***************************************************************************)
(* The service specification: calls of RAGService                          *)
(***************************************************************************)
\* HUGGINGFACE_API_KEY is set: with ServiceEnvs the process then runs either
\* without a model or with the remote client (both values of the key are
\* covered by the generation specification)
Init ==
    /\ SplitIdle
    /\ ServiceInit
    /\ hf_api_key = TRUE
    /\ gen_in = NoGenInput

\* a call of add_documents
AddDocuments ==
    \E s \in SessionIds : \E chunks \in ChunkLists(s) :
      \E ef \in (IF embeddings_initialized THEN {FALSE} ELSE BOOLEAN) :
        \E opn \in (IF vector_stores[s].open \/ ef THEN {"ok"}
                    ELSE OpenOutcomes),
           add \in (IF ef THEN {"ok"} ELSE AddOutcomes) :
        \E stale \in (IF add = "persist_raises" THEN BOOLEAN ELSE {FALSE}) :
          /\ Len(store[CollectionName(s)]) + Len(chunks) <= MaxStore
          /\ add_documents(chunks, s, [emb_fail |-> ef, opn |-> opn,
                                       add |-> add, stale |-> stale])
          /\ offered' = [offered EXCEPT ![s] = @ \cup Range(chunks)]
          /\ ingested' = IF last'.raised THEN ingested
                         ELSE [ingested EXCEPT ![s] = @ \cup Range(chunks)]
          /\ UNCHANGED <<spvars, dpvars, gen_in, loopvars, dbvars>>

\* the segments the handle of session s shows once it is obtained
SeenBy(s) ==
    IF vector_stores[s].open THEN Visible(store, vector_stores[s])
    ELSE store[CollectionName(s)]

\* a call of get_response; an outcome is drawn only for a step the call
\* reaches
GetResponse ==
    \E s \in SessionIds, query \in ServiceQueries :
      \E ef \in (IF embeddings_initialized THEN {FALSE} ELSE BOOLEAN) :
        \E opn \in (IF vector_stores[s].open \/ ef THEN {"ok"}
                    ELSE OpenOutcomes) :
          \E probe \in (IF ef \/ opn = "fail" THEN {"ok"} ELSE SearchOutcomes) :
            LET stop1 == ef \/ opn = "fail"
                           \/ (probe = "ok" /\ SeenBy(s) = << >>)
            IN
            \E ranked \in (IF stop1 THEN {"ok"} ELSE SearchOutcomes) :
              \E plain \in (IF ranked = "raise" THEN SearchOutcomes
                            ELSE {"ok"}) :
                LET stop2 == stop1 \/ plain = "raise" \/ SeenBy(s) = << >>
                IN
                \E rank \in (IF stop2 THEN {<< >>}
                             ELSE ServiceRankings(Len(SeenBy(s)))),
                   env \in (IF stop2 \/ llm_initialized THEN {DefaultEnv}
                            ELSE ServiceEnvs) :
                  \E oc \in (IF stop2 \/ (llm_initialized /\ llm = "None")
                                      \/ (~llm_initialized
                                            /\ InitLLM(hf_api_key, env).llm = "None")
                             THEN {AllFail} ELSE GenScenarios) :
                    /\ get_response(query, s,
                                    [emb_fail |-> ef, opn |-> opn,
                                     probe |-> probe, ranked |-> ranked,
                                     plain |-> plain, late |-> "no"],
                                    rank, env, oc)
                    /\ UNCHANGED <<spvars, dpvars, histvars, gen_in, loopvars,
                                   dbvars>>

Next == AddDocuments \/ GetResponse

Spec == Init /\ [][Next]_vars

(***************************************************************************)
(* The processing specification: calls of process_text on one              *)
(* DocumentProcessor (the module-level object of main.py:33), each with a  *)
(* text and with the MemoryError behaviour of its split_text calls         *)
(***************************************************************************)
\* the texts processed: runs of "a", possibly ending in white space
ProcTexts ==
    {t \in SeqsUpTo(Units, MaxLen) : \A i \in 1..(Len(t) - 1) : t[i] = "a"}

OomKinds == {"no", "once", "twice"}

NoProcInput == [text |-> << >>, source |-> "", oom |-> "no"]

InitProc ==
    /\ SplitIdle
    /\ ServiceInit
    /\ hf_api_key = FALSE
    /\ gen_in = NoProcInput

\* process_text(text, "doc1"), lines 127-168; the splitter keeps the
\* parameters the retry assigned
ProcessTextCall ==
    \E text \in ProcTexts, oom \in OomKinds :
        LET pt == ProcessText(text, "doc1", dp_size, dp_overlap, oom)
        IN  /\ ~hung
            /\ gen_in' = [text |-> text, source |-> "doc1", oom |-> oom]
            /\ dp_size' = pt.size
            /\ dp_overlap' = pt.overlap
            /\ hung' = pt.hang
            /\ last' = IF pt.hang THEN NoResult
                       ELSE [NoResult EXCEPT !.op = "process_text",
                                             !.raised = pt.raised,
                                             !.docs = pt.docs]
            /\ UNCHANGED <<spvars, ragvars, histvars, loopvars, sessions,
                           messages, files, http>>

NextProc == ProcessTextCall

SpecProc == InitProc /\ [][NextProc]_vars

(***************************************************************************)
(* The retrieval specification: one session whose index receives segments  *)
(* of several documents one by one and is queried with no model configured *)
(* and no fault, under every ranking the similarity search may produce     *)
(***************************************************************************)
\* most segments the index holds in the retrieval specification
MaxIndexed == 4

\* segments of two documents, and one whose metadata names no source
RetrSegments ==
    {[content |-> <<"a">>, source |-> "doc1", chunk_index |-> 0,
      total_chunks |-> 2],
     [content |-> <<"b">>, source |-> "doc1", chunk_index |-> 1,
      total_chunks |-> 2],
     [content |-> <<"c">>, source |-> "doc2", chunk_index |-> 0,
      total_chunks |-> 1],
     [content |-> <<"d">>, chunk_index |-> 0, total_chunks |-> 1]}

NoAddFault == [emb_fail |-> FALSE, opn |-> "ok", add |-> "ok",
               stale |-> FALSE]
NoQueryFault == [emb_fail |-> FALSE, opn |-> "ok", probe |-> "ok",
                 ranked |-> "ok", plain |-> "ok", late |-> "no"]

InitRetr ==
    /\ SplitIdle
    /\ ServiceInit
    /\ hf_api_key = FALSE
    /\ gen_in = NoGenInput

\* add_documents of one more segment to session s1
AddSegment ==
    \E seg \in RetrSegments :
        /\ seg \notin Range(store[CollectionName("s1")])
        /\ Len(store[CollectionName("s1")]) < MaxIndexed
        /\ add_documents(<<seg>>, "s1", NoAddFault)
        /\ offered' = [offered EXCEPT !["s1"] = @ \cup {seg}]
        /\ ingested' = [ingested EXCEPT !["s1"] = @ \cup {seg}]
        /\ UNCHANGED <<spvars, dpvars, gen_in, loopvars, dbvars>>

\* get_response on session s1; the search ranks the segments in any order
\* the process environments of the retrieval specification: transformers is
\* not installed, or loading GPT-2 raises, or it loads.  The environment is
\* drawn at every request: what would load now may differ from what loaded
\* at the first request.
RetrEnvs == {[DefaultEnv EXCEPT !.local = l] : l \in {"absent", "raises", "ok"}}

Retrieve ==
    \E rank \in Rankings(Len(SeenBy("s1")), TopK) : \E env \in RetrEnvs :
        /\ get_response(<<"where">>, "s1", NoQueryFault, rank, env, AllFail)
        /\ UNCHANGED <<spvars, dpvars, histvars, gen_in, loopvars, dbvars>>

NextRetr == AddSegment \/ Retrieve

SpecRetr == InitRetr /\ [][NextRetr]_vars

(***************************************************************************)
(* The error-handling specification: get_response for one session whose   *)
(* handle opens, with an exception possible at every later step: the       *)
(* probe, the ranked and the plain search, the building of the context,    *)
(* the model calls (all of them fail) and the generation as a whole.       *)
(***************************************************************************)
StepFaults ==
    {f \in [emb_fail : {FALSE}, opn : {"ok"}, probe : SearchOutcomes,
             ranked : SearchOutcomes, plain : SearchOutcomes,
             late : LateOutcomes] :
        f.ranked = "ok" => f.plain = "ok"}

FaultyQuery ==
    \E f \in StepFaults, env \in {e \in RetrEnvs : e.local # "absent"} :
      \E rank \in ServiceRankings(Len(SeenBy("s1"))) :
        /\ get_response(<<"where">>, "s1", f, rank, env, AllFail)
        /\ UNCHANGED <<spvars, dpvars, histvars, gen_in, loopvars, dbvars>>

NextErr == AddSegment \/ FaultyQuery

SpecErr == InitRetr /\ [][NextErr]_vars

(***************************************************************************)
(* The generation specification: the answer get_response builds from a     *)
(* non-empty list of retrieved segments (lines 311-332), for every process *)
(* environment and every outcome of the model calls                        *)
(***************************************************************************)
\* most segments in a retrieved list of the generation specification
MaxGenDocs == 2

GenSegments ==
    {[content |-> Doc1Text, source |-> "doc1", chunk_index |-> 0,
      total_chunks |-> 1],
     [content |-> Doc2Text, source |-> "doc2", chunk_index |-> 0,
      total_chunks |-> 1],
     [content |-> <<"a", WS, "Answer:">>, source |-> "doc3", chunk_index |-> 0,
      total_chunks |-> 1]}

GenDocLists == SeqsUpTo(GenSegments, MaxGenDocs) \ {<< >>}

CanonWithKey == {oc \in GenOutcomes : Canonical(oc, TRUE)}
CanonNoKey == {oc \in GenOutcomes : Canonical(oc, FALSE)}

InitGen ==
    /\ SplitIdle
    /\ ServiceInit
    /\ hf_api_key \in BOOLEAN
    /\ \E q \in Queries, d \in GenDocLists, e \in LLMEnvs :
         \E oc \in (IF InitLLM(hf_api_key, e).llm = "None" THEN {AllFail}
                    ELSE IF hf_api_key THEN CanonWithKey ELSE CanonNoKey) :
           gen_in = [query |-> q, docs |-> d, env |-> e, oc |-> oc]

\* lines 311-332 of get_response on the retrieved segments gen_in.docs
Generate ==
    /\ last.op = "none"
    /\ LET init == EnsureLLM(llm_initialized, llm, llm_repo_id,
                             hf_api_key, gen_in.env)
       IN  /\ llm_initialized' = TRUE
           /\ llm' = init.llm
           /\ llm_repo_id' = init.repo_id
           /\ local_loadable' = IF gen_in.env.local = "ok" THEN "yes" ELSE "no"
           /\ last' = WithAnswer([NoResult EXCEPT !.op = "generate",
                                                   !.query = gen_in.query,
                                                   !.docs = gen_in.docs],
                                  AnswerFrom(gen_in.query, gen_in.docs,
                                             init.llm, hf_api_key, gen_in.oc))
    /\ UNCHANGED <<spvars, dpvars, histvars, gen_in, loopvars, dbvars, store,
                   vector_stores, embeddings_initialized, hf_api_key>>

NextGen == Generate

SpecGen == InitGen /\ [][NextGen]_vars

(***************************************************************************)
(* The heuristic-tier specification: calls of _generate_smart_fallback on  *)
(* the arguments gen_in, with _init_llm running before or between them     *)
(***************************************************************************)
\* most calls of _generate_smart_fallback in one behaviour
MaxHeurCalls == 2

HeurQueries == {<<"Hi">>, <<"where">>, <<"summary">>, <<"tech">>,
                <<"tech", WS, "firm">>, <<"a">>, <<"company">>, <<"job">>}

HeurSegment(content, source) ==
    [content |-> content, source |-> source, chunk_index |-> 0,
     total_chunks |-> 1]

\* no segment is a prefix of another one; doc4 is longer than BestExcerpt,
\* doc5 is longer than SummaryExcerpt and has no full stop, doc6 starts with
\* a full stop
HeurSegments ==
    {HeurSegment(Doc1Text, "doc1"),
     HeurSegment(<<"firm">>, "doc2"),
     HeurSegment(<<"tech">>, "doc3"),
     HeurSegment(<<"big", WS, "tech", WS, "firm">>, "doc4"),
     HeurSegment(<<"x", "y">>, "doc5"),
     HeurSegment(<<".", "summary">>, "doc6")}

HeurDocLists == SeqsUpTo(HeurSegments, MaxGenDocs)

InitHeur ==
    /\ SplitIdle
    /\ ServiceInit
    /\ hf_api_key \in BOOLEAN
    /\ \E q \in HeurQueries, d \in HeurDocLists, e \in ServiceEnvs :
         gen_in = [query |-> q, docs |-> d, env |-> e, oc |-> AllFail]

\* _generate_smart_fallback(query, docs, context), with the context its two
\* call sites build (lines 545 and 578)
Fallback ==
    /\ Len(last.calls) < MaxHeurCalls
    /\ last' = [NoResult EXCEPT
                   !.op = "fallback",
                   !.query = gen_in.query,
                   !.reply = SmartFallback(gen_in.query, gen_in.docs,
                                           BuildContext(gen_in.docs)),
                   !.docs = gen_in.docs,
                   !.calls = Append(last.calls, "heuristic")]
    /\ UNCHANGED <<spvars, dpvars, ragvars, histvars, gen_in, loopvars,
                   dbvars>>

\* _init_llm, lines 105-183
LoadModel ==
    /\ ~llm_initialized
    /\ LET init == InitLLM(hf_api_key, gen_in.env)
       IN  /\ llm_initialized' = TRUE
           /\ llm' = init.llm
           /\ llm_repo_id' = init.repo_id
           /\ local_loadable' = IF gen_in.env.local = "ok" THEN "yes" ELSE "no"
    /\ UNCHANGED <<spvars, dpvars, histvars, last, gen_in, loopvars, dbvars,
                   store,
                   vector_stores, embeddings_initialized, hf_api_key>>

NextHeur == Fallback \/ LoadModel

SpecHeur == InitHeur /\ [][NextHeur]_vars

(***************************************************************************)
(* The output specification: how _generate_with_llm leaves, with the text  *)
(* gen_in.raw a model call returned (lines 548-570) or through its         *)
(* exception handler (lines 572-580)                                       *)
(***************************************************************************)
\* longest model output, in units
MaxRawLen == 3

RawUnits == {"ans", "Context:", "Question:", "Answer:"}

RawTexts == SeqsUpTo(RawUnits, MaxRawLen)

InitNorm ==
    /\ SplitIdle
    /\ ServiceInit
    /\ hf_api_key = TRUE
    /\ \E raw \in RawTexts, d \in {<< >>} \cup {<<g>> : g \in GenSegments} :
         gen_in = [query |-> <<"a">>, docs |-> d, env |-> DefaultEnv,
                   oc |-> AllFail, raw |-> raw]

\* lines 548-570: the response of a model call is cleaned and returned
ReturnResponse ==
    /\ last.op = "none"
    /\ last' = [NoResult EXCEPT !.op = "return",
                                !.query = gen_in.query,
                                !.reply = CleanUp(gen_in.raw),
                                !.docs = gen_in.docs,
                                !.calls = <<"invoke">>]
    /\ UNCHANGED <<spvars, dpvars, ragvars, histvars, gen_in, loopvars,
                   dbvars>>

\* lines 572-580: an exception was raised inside the try block
ReturnFromExcept ==
    /\ last.op = "none"
    /\ last' = [NoResult EXCEPT !.op = "except",
                                !.query = gen_in.query,
                                !.reply = ExceptReply(gen_in.query,
                                                      gen_in.docs),
                                !.docs = gen_in.docs]
    /\ UNCHANGED <<spvars, dpvars, ragvars, histvars, gen_in, loopvars,
                   dbvars>>

NextNorm == ReturnResponse \/ ReturnFromExcept

SpecNorm == InitNorm /\ [][NextNorm]_vars

(***************************************************************************)
(* The event-loop specification: the add_documents and get_response        *)
(* coroutines of up to two requests in flight                              *)
(***************************************************************************)
\* the chunk list request t uploads
LoopChunks(t) ==
    ProcessText(IF t = "t1" THEN Doc1Text ELSE Doc2Text, t, DefaultChunkSize,
                DefaultOverlap, "no").docs

InitLoop ==
    /\ SplitIdle
    /\ ServiceInit
    /\ hf_api_key = FALSE
    /\ gen_in = NoGenInput

\* task t of the given kind is at position pc and may run
At(t, kind, pc) ==
    /\ tasks[t].kind = kind
    /\ tasks[t].pc = pc
    /\ running \in {"none", t}

\* task t moves to position pc; it keeps the loop unless it returns or
\* suspends there
Moves(t, pc, h, docs) ==
    /\ tasks' = [tasks EXCEPT ![t].pc = pc, ![t].h = h, ![t].docs = docs]
    /\ running' = IF pc = "done" \/ Suspends(tasks[t].kind, pc) THEN "none"
                  ELSE t

\* a request arrives: its endpoint (main.py:182, 236, 280) creates the
\* coroutine
Arrive ==
    \E t \in TaskIds, kind \in {"add", "query"}, s \in SessionIds :
        /\ tasks[t].kind = "none"
        /\ running = "none"
        /\ tasks' = [tasks EXCEPT ![t] = [NoTask EXCEPT !.kind = kind,
                                                        !.sid = s,
                                                        !.pc = "start"]]
        /\ UNCHANGED <<spvars, dpvars, ragvars, histvars, last, gen_in,
                       dbvars, running>>

\* add_documents, lines 214-217: vector_store = self._get_vector_store(...)
AddGetHandle ==
    \E t \in TaskIds :
        /\ At(t, "add", "start")
        /\ LET g == GetVectorStore(vector_stores, embeddings_initialized,
                                   store, tasks[t].sid, FALSE, "ok")
           IN  /\ vector_stores' = g.vs
               /\ embeddings_initialized' = g.emb
               /\ Moves(t, "have_handle", g.vs[tasks[t].sid], << >>)
        /\ UNCHANGED <<spvars, dpvars, histvars, last, gen_in, dbvars, store,
                       llm, llm_initialized, llm_repo_id, hf_api_key,
                       local_loadable>>

\* add_documents, line 233: vector_store.add_documents(documents)
AddWrite ==
    \E t \in TaskIds :
        /\ At(t, "add", "have_handle")
        /\ store' = Written(store, tasks[t].h.coll, LoopChunks(t))
        /\ offered' = [offered EXCEPT ![tasks[t].sid] =
                                          @ \cup Range(LoopChunks(t))]
        /\ Moves(t, "written", tasks[t].h, << >>)
        /\ UNCHANGED <<spvars, dpvars, ingested, last, gen_in, dbvars,
                       vector_stores, embeddings_initialized, llm,
                       llm_initialized, llm_repo_id, hf_api_key,
                       local_loadable>>

\* add_documents, line 237: vector_store.persist()
AddPersist ==
    \E t \in TaskIds :
        /\ At(t, "add", "written")
        /\ Moves(t, "persisted", tasks[t].h, << >>)
        /\ UNCHANGED <<spvars, dpvars, ragvars, histvars, last, gen_in,
                       dbvars>>

\* add_documents, lines 242-243: del self.vector_stores[session_id]
AddInvalidate ==
    \E t \in TaskIds :
        /\ At(t, "add", "persisted")
        /\ vector_stores' = Invalidate(vector_stores, tasks[t].sid)
        /\ Moves(t, "invalidated", tasks[t].h, << >>)
        /\ UNCHANGED <<spvars, dpvars, histvars, last, gen_in, dbvars, store,
                       embeddings_initialized, llm, llm_initialized,
                       llm_repo_id, hf_api_key, local_loadable>>

\* add_documents, lines 246-257: the verification on a fresh handle, and the
\* return
AddVerify ==
    \E t \in TaskIds :
        /\ At(t, "add", "invalidated")
        /\ ingested' = [ingested EXCEPT ![tasks[t].sid] =
                                            @ \cup Range(LoopChunks(t))]
        /\ last' = [NoResult EXCEPT !.op = "add_documents",
                                    !.sid = tasks[t].sid,
                                    !.added = Len(LoopChunks(t))]
        /\ Moves(t, "done", NoHandle, << >>)
        /\ UNCHANGED <<spvars, dpvars, ragvars, offered, gen_in, dbvars>>

\* get_response, line 267: vector_store = self._get_vector_store(session_id)
QueryGetHandle ==
    \E t \in TaskIds :
        /\ At(t, "query", "start")
        /\ LET g == GetVectorStore(vector_stores, embeddings_initialized,
                                   store, tasks[t].sid, FALSE, "ok")
           IN  /\ vector_stores' = g.vs
               /\ embeddings_initialized' = g.emb
               /\ Moves(t, "have_handle", g.vs[tasks[t].sid], << >>)
        /\ UNCHANGED <<spvars, dpvars, histvars, last, gen_in, dbvars, store,
                       llm, llm_initialized, llm_repo_id, hf_api_key,
                       local_loadable>>

\* get_response, lines 270-304: the probe and the retrieval through the
\* handle (the segments in stored order)
QuerySearch ==
    \E t \in TaskIds :
        /\ At(t, "query", "have_handle")
        /\ LET seen == Visible(store, tasks[t].h)
           IN  Moves(t, "retrieved", tasks[t].h,
                     SubSeq(seen, 1, Min(TopK, Len(seen))))
        /\ UNCHANGED <<spvars, dpvars, ragvars, histvars, last, gen_in,
                       dbvars>>

\* get_response, lines 306-339: the reply for the retrieved segments
QueryAnswer ==
    \E t \in TaskIds :
        /\ At(t, "query", "retrieved")
        /\ LET docs == tasks[t].docs
               res == [NoResult EXCEPT !.op = "get_response",
                                       !.sid = tasks[t].sid,
                                       !.query = <<"where">>]
           IN  IF NothingRetrieved(docs)
               THEN /\ last' = [res EXCEPT !.reply = NoDocsReply]
                    /\ UNCHANGED <<llm, llm_initialized, llm_repo_id,
                                   local_loadable>>
               ELSE LET init == EnsureLLM(llm_initialized, llm, llm_repo_id,
                                          hf_api_key, DefaultEnv)
                    IN  /\ llm_initialized' = TRUE
                        /\ llm' = init.llm
                        /\ llm_repo_id' = init.repo_id
                        /\ local_loadable' = IF llm_initialized
                                             THEN local_loadable ELSE "no"
                        /\ last' =
                             WithAnswer([res EXCEPT !.docs = docs],
                                        AnswerFrom(<<"where">>, docs, init.llm,
                                                   hf_api_key, AllFail))
        /\ Moves(t, "done", NoHandle, tasks[t].docs)
        /\ UNCHANGED <<spvars, dpvars, histvars, gen_in, dbvars, store,
                       vector_stores, embeddings_initialized, hf_api_key>>

NextLoop ==
    \/ Arrive
    \/ AddGetHandle \/ AddWrite \/ AddPersist \/ AddInvalidate \/ AddVerify
    \/ QueryGetHandle \/ QuerySearch \/ QueryAnswer

SpecLoop == InitLoop /\ [][NextLoop]_vars

(***************************************************************************)
(* The HTTP specification: the endpoints of main.py over the database,     *)
(* the document processor, the OCR service and RAGService                  *)
(***************************************************************************)
\* most Message rows of one session, most UploadedFile rows of one session
MaxMessages == 4
MaxFiles == 2

\* the session ids the requests name
ApiSessionIds == {"s1"}

\* a text whose last window is blank: split_text never returns on it
HangText == <<"a", WS, WS>>

\* what upload_document receives: bytes that are no UTF-8 text, a PDF or
\* DOCX whose extraction raises, or a file with the text given
DocumentInputs(s) ==
    {[kind |-> "undecodable", text |-> << >>],
     [kind |-> "extract_raises", text |-> << >>],
     [kind |-> "text", text |-> << >>],
     [kind |-> "text", text |-> <<WS>>],
     [kind |-> "text", text |-> UploadOf(s).text],
     [kind |-> "text", text |-> HangText]}

\* what upload_screenshot receives: bytes that are no image, an image
\* without text, or an image showing the text given
ImageInputs(s) ==
    {[kind |-> "not_image", text |-> << >>],
     [kind |-> "no_text", text |-> << >>],
     [kind |-> "text", text |-> UploadOf(s).text]}

\* the text taken for a document whatever it holds
RejectsText_never(text) == FALSE

\* document_processor.py:98: if not text.strip()
RejectsText(text) == IsBlank(text)

\* document_processor.py:82-101, up to the call of process_text: the text
\* extracted, or raised
ExtractDocument(input) ==
    IF input.kind # "text" \/ RejectsText(input.text)
    THEN [raised |-> TRUE, text |-> << >>]
    ELSE [raised |-> FALSE, text |-> input.text]

\* ocr_service.py:24-39 with 45 / 63: the stripped text, "" when the bytes
\* are no image or no OCR engine is available
ExtractText(input) == IF input.kind = "text" THEN Strip(input.text) ELSE << >>

InputClass(input) ==
    IF input.kind \in {"undecodable", "extract_raises", "not_image"}
    THEN "unsupported"
    ELSE IF IsBlank(input.text) THEN "blank" ELSE "text"

\* the faults drawn in the HTTP specification; an outcome is drawn only for
\* a step the call reaches
ApiAddFaults(s) ==
    {f \in AddFaults :
        /\ embeddings_initialized => ~f.emb_fail
        /\ (vector_stores[s].open \/ f.emb_fail) => f.opn = "ok"
        /\ (f.emb_fail \/ f.opn = "fail") => f.add = "ok"
        /\ f.add # "persist_raises" => ~f.stale}

ApiQueryFaults(s) ==
    {f \in QueryFaults :
        /\ embeddings_initialized => ~f.emb_fail
        /\ (vector_stores[s].open \/ f.emb_fail) => f.opn = "ok"
        /\ f.probe = "ok"
        /\ (f.emb_fail \/ f.opn = "fail" \/ SeenBy(s) = << >>)
              => f.ranked = "ok"
        /\ f.ranked = "ok" => f.plain = "ok"}

Response(op, s, status, input, added) ==
    [op |-> op, sid |-> s, status |-> status, input |-> input,
     added |-> added]

\* an endpoint that writes its row before it looks the session up
NotFound_recording(op, s) ==
    /\ s \notin sessions
    /\ Len(messages[s]) < MaxMessages
    /\ messages' = [messages EXCEPT ![s] = Append(@, "user")]
    /\ http' = Response(op, s, 404, "none", 0)
    /\ UNCHANGED <<spvars, dpvars, ragvars, histvars, last, gen_in, loopvars,
                   sessions, files, hung>>

\* lines 156-158 / 211-213 / 257-259: the session is not in the database
NotFound(op, s) ==
    /\ s \notin sessions
    /\ http' = Response(op, s, 404, "none", 0)
    /\ UNCHANGED <<spvars, dpvars, ragvars, histvars, last, gen_in, loopvars,
                   sessions,
                   messages, files, hung>>

\* main.py:83-101
CreateSession ==
    /\ ~hung
    /\ \E id \in ApiSessionIds \ sessions :
         /\ sessions' = sessions \cup {id}
         /\ http' = Response("create_session", id, 200, "none", 0)
    /\ UNCHANGED <<spvars, dpvars, ragvars, histvars, last, gen_in, loopvars,
                   messages,
                   files, hung>>

\* main.py:121-147: the session is not looked up before the row is written
CreateMessage ==
    /\ ~hung
    /\ \E s \in ApiSessionIds, role \in {"user", "assistant"} :
         /\ Len(messages[s]) < MaxMessages
         /\ messages' = [messages EXCEPT ![s] = Append(@, role)]
         /\ http' = Response("create_message", s, 200, "none", 0)
    /\ UNCHANGED <<spvars, dpvars, ragvars, histvars, last, gen_in, loopvars,
                   sessions,
                   files, hung>>

\* a chat that writes both rows in one transaction
Transcript_atomic(msgs, raised) ==
    IF raised THEN msgs ELSE msgs \o <<"user", "assistant">>

\* main.py:161-177 and 185-194: the user row is committed before
\* get_response is called, the assistant row after it has returned; the
\* rollback of line 199 finds the user row committed
Transcript(msgs, raised) ==
    IF raised THEN Append(msgs, "user")
    ELSE msgs \o <<"user", "assistant">>

\* main.py:150-202
Chat ==
    /\ ~hung
    /\ \E s \in ApiSessionIds, query \in ServiceQueries :
         \/ NotFound("chat", s)
         \/ /\ s \in sessions
            /\ Len(messages[s]) + 2 <= MaxMessages
            /\ \E f \in ApiQueryFaults(s) :
                 \E rank \in (IF f.emb_fail \/ f.opn = "fail"
                                 \/ f.plain = "raise"
                              THEN {<< >>}
                              ELSE ServiceRankings(Len(SeenBy(s)))) :
                   get_response(query, s, f, rank, DefaultEnv, AllFail)
            /\ messages' = [messages EXCEPT ![s] =
                              Transcript(@, last'.raised)]
            /\ http' = Response("chat", s,
                                IF last'.raised THEN 500 ELSE 200, "none", 0)
            /\ UNCHANGED <<spvars, dpvars, histvars, gen_in, loopvars,
                           sessions, files,
                           hung>>

(***************************************************************************)
\* process_text followed by add_documents (main.py:232-236 through
\* document_processor.py:101, main.py:279-280) and the response built from
\* the outcome
Ingest(op, s, text, class) ==
    LET pt == ProcessText(text, UploadOf(s).source, dp_size, dp_overlap, "no")
        c == CollectionName(s)
    IN  IF pt.hang
        THEN /\ hung' = TRUE
             /\ UNCHANGED <<dpvars, ragvars, histvars, last, http>>
        ELSE /\ Len(store[c]) + Len(pt.docs) <= MaxStore
             /\ \E f \in ApiAddFaults(s) : add_documents(pt.docs, s, f)
             /\ offered' = [offered EXCEPT ![s] = @ \cup Range(pt.docs)]
             /\ ingested' = IF last'.raised THEN ingested
                            ELSE [ingested EXCEPT ![s] = @ \cup Range(pt.docs)]
             /\ http' = Response(op, s, IF last'.raised THEN 500 ELSE 200,
                                 class, Len(store'[c]) - Len(store[c]))
             /\ dp_size' = pt.size
             /\ dp_overlap' = pt.overlap
             /\ hung' = hung

\* main.py:205-248
UploadDocument ==
    /\ ~hung
    /\ \E s \in ApiSessionIds :
         \/ NotFound("upload_document", s)
         \/ /\ s \in sessions
            /\ files[s] < MaxFiles
            /\ files' = [files EXCEPT ![s] = @ + 1]
            /\ \E input \in DocumentInputs(s) :
                 LET x == ExtractDocument(input)
                 IN  IF x.raised
                     THEN /\ http' = Response("upload_document", s, 500,
                                              InputClass(input), 0)
                          /\ UNCHANGED <<dpvars, ragvars, histvars, last,
                                         hung>>
                     ELSE Ingest("upload_document", s, x.text,
                                 InputClass(input))
            /\ UNCHANGED <<spvars, gen_in, loopvars, sessions, messages>>

\* main.py:251-288, and main.py:291-296 which delegates to it
UploadScreenshot ==
    /\ ~hung
    /\ \E s \in ApiSessionIds, op \in {"upload_screenshot", "upload_image"} :
         \/ NotFound(op, s)
         \/ /\ s \in sessions
            /\ files[s] < MaxFiles
            /\ files' = [files EXCEPT ![s] = @ + 1]
            /\ \E input \in ImageInputs(s) :
                 LET extracted_text == ExtractText(input)
                 IN  IF extracted_text = << >>
                     THEN /\ http' = Response(op, s, 200, InputClass(input), 0)
                          /\ UNCHANGED <<dpvars, ragvars, histvars, last,
                                         hung>>
                     ELSE Ingest(op, s, extracted_text, InputClass(input))
            /\ UNCHANGED <<spvars, gen_in, loopvars, sessions, messages>>

InitApi ==
    /\ SplitIdle
    /\ ServiceInit
    /\ hf_api_key = FALSE
    /\ gen_in = NoGenInput

NextApi ==
    \/ CreateSession
    \/ CreateMessage
    \/ Chat
    \/ UploadDocument
    \/ UploadScreenshot

SpecApi == InitApi /\ [][NextApi]_vars

(***************************************************************************)
(* Claims about the visibility of ingested segments (Spec)                 *)
(***************************************************************************)
\* the last call is a get_response that returned to its caller
Answered == last.op = "get_response" /\ ~last.raised

RankedRaised == \E i \in 1..Len(last.searches) :
                   last.searches[i] = <<"ranked", "raise">>
PlainRaised == \E i \in 1..Len(last.searches) :
                  last.searches[i] = <<"plain", "raise">>
PlainSearches == {i \in 1..Len(last.searches) : last.searches[i][1] = "plain"}

\* C1 as stated: after add_documents returned successfully for a session
\* with at least one segment, a get_response of that session never returns
\* the "no documents" reply.
C1_NeverNoDocsAfterIngest ==
    (Answered /\ ingested[last.sid] # {}) => last.reply # NoDocsReply

\* C1 amended: after add_documents returned successfully for a session, the
\* handle a returning get_response of that session searches shows every
\* segment ingested, whether or not a handle was cached before the
\* ingestion, and the "no documents" reply is returned only when the
\* ranked retrieval and the plain search both raised.
C1_SeesIngested ==
    (Answered /\ ingested[last.sid] # {}) =>
        /\ vector_stores[last.sid].open
        /\ ingested[last.sid]
              \subseteq Range(Visible(store, vector_stores[last.sid]))
        /\ last.reply = NoDocsReply => (RankedRaised /\ PlainRaised)

C1_Witness ==
    /\ Answered
    /\ ingested[last.sid] # {}
    /\ Range(last.docs) \cap ingested[last.sid] # {}
    /\ last.reply # NoDocsReply

\* C2: a get_response of session B never retrieves a segment, nor returns
\* a source, that was added only under another session A.
C2_SessionIsolation ==
    last.op = "get_response" =>
        \A a \in SessionIds \ {last.sid} :
            \A seg \in offered[a] \ offered[last.sid] :
                /\ seg \notin Range(last.docs)
                /\ seg.source \notin last.sources

C2_Witness ==
    /\ Answered
    /\ last.docs # << >>
    /\ \E a \in SessionIds \ {last.sid} :
          /\ store[CollectionName(a)] # << >>
          /\ ingested[a] \ offered[last.sid] # {}

\* C5: a get_response of a session that never received a segment returns
\* exactly the "no documents" reply with no sources, and no generation
\* tier is called.
C5_NoDocumentsReply ==
    (Answered /\ offered[last.sid] = {}) =>
        /\ last.reply = NoDocsReply
        /\ last.sources = {}
        /\ last.docs = << >>
        /\ last.calls = << >>

C5_Witness ==
    /\ Answered
    /\ offered[last.sid] = {}
    /\ last.reply = NoDocsReply
    /\ last.searches = <<<<"probe", "raise">>, <<"ranked", "ok">>>>

\* C9: when the ranked retrieval raises, exactly one plain similarity
\* search follows; its result is used if it succeeds; if it raises too the
\* call returns the "no documents" reply with no sources.  The failure
\* reaches the caller neither as an exception nor as the error reply.
C9_RetrievalFallback ==
    (last.op = "get_response" /\ RankedRaised) =>
        /\ ~last.raised
        /\ last.reply # ErrorReply
        /\ Cardinality(PlainSearches) = 1
        /\ PlainSearches = {Len(last.searches)}
        /\ PlainRaised => (last.reply = NoDocsReply /\ last.sources = {}
                             /\ last.calls = << >>)
        /\ (~PlainRaised /\ Visible(store, vector_stores[last.sid]) # << >>)
              => (last.docs # << >> /\ last.reply # NoDocsReply)

C9_Witness ==
    /\ last.op = "get_response"
    /\ RankedRaised
    /\ PlainRaised
    /\ ingested[last.sid] # {}
    /\ last.reply = NoDocsReply

C9_WitnessRecovered ==
    /\ last.op = "get_response"
    /\ RankedRaised
    /\ ~PlainRaised
    /\ last.docs # << >>

(***************************************************************************)
(* Claims about the generation tiers (SpecGen)                             *)
(***************************************************************************)
Generated == last.op = "generate"

RemoteSelected == llm \in {"Endpoint", "Hub"}

CallRank(c) ==
    CASE c = "invoke" -> 1 [] c = "predict" -> 2 [] c = "run" -> 3
      [] c = "post1" -> 4 [] c = "post2" -> 5 [] c = "post3" -> 6
      [] c = "call" -> 7 [] c = "heuristic" -> 8 [] OTHER -> 0

\* every model call the request made failed
AllCallsFailed ==
    /\ gen_in.oc.invoke = "fail" /\ gen_in.oc.predict = "fail"
    /\ gen_in.oc.run = "fail" /\ gen_in.oc.call = "fail"
    /\ \A i \in 1..3 : gen_in.oc.api[i].out = "fail"

\* C6 as stated: whenever the remote tier fails for a request and a local
\* model can be loaded, the local tier is attempted before the heuristic
\* tier is used.
C6_LocalBeforeHeuristic ==
    (Generated /\ RemoteSelected /\ local_loadable = "yes"
       /\ "heuristic" \in Range(last.calls))
      => \E i \in 1..Len(last.calls) :
            /\ TierOf(last.calls[i], llm) = "Local"
            /\ \A j \in 1..i : last.calls[j] # "heuristic"

\* C6 amended: one model is selected at initialization (the remote client
\* when a credential is present and the client constructs, else the local
\* model when it loads, else none).  A request calls the selected model
\* (invoke, predict, run), then the direct remote API if a credential is
\* present, then the selected model once more (__call__), then the
\* heuristic tier, in this order; the first call that returns a response
\* ends the chain and the heuristic tier runs only when every call failed.
\* When the selected model is remote no local model is attempted.
C6_TierOrder ==
    Generated =>
        /\ (hf_api_key /\ "ok" \in {gen_in.env.endpoint, gen_in.env.hub})
              => RemoteSelected
        /\ (~RemoteSelected /\ gen_in.env.local = "ok") => llm = "Pipeline"
        /\ llm = "None" => last.calls = << >>
        /\ llm # "None" => (last.calls # << >> /\ last.calls[1] = "invoke")
        /\ \A i, j \in 1..Len(last.calls) :
              (i < j /\ last.calls[i] # "sleep" /\ last.calls[j] # "sleep")
                => CallRank(last.calls[i]) <= CallRank(last.calls[j])
        /\ (llm # "None" /\ gen_in.oc.invoke # "fail")
              => last.calls = <<"invoke">>
        /\ "heuristic" \in Range(last.calls)
              <=> (llm # "None" /\ AllCallsFailed)
        /\ ~hf_api_key => \A i \in 1..Len(last.calls) :
                             CallRank(last.calls[i]) \notin 4..6
        /\ RemoteSelected => \A i \in 1..Len(last.calls) :
                                TierOf(last.calls[i], llm) # "Local"

C6_Witness ==
    /\ Generated
    /\ llm = "Hub"
    /\ local_loadable = "yes"
    /\ last.calls = <<"invoke", "predict", "run", "post1", "post2", "post3",
                      "call", "heuristic">>

\* C7: whenever retrieval returned at least one segment the reply is not
\* empty, whatever the model calls return.
C7_ReplyNotEmpty ==
    (Generated /\ last.docs # << >>) => ~IsBlank(last.reply)

(***************************************************************************)
(* Claims about failures at the HTTP surface (SpecApi)                     *)
(***************************************************************************)
\* the last response answers a chat request that reached get_response
ChatAnswered == http.op = "chat" /\ http.status # 404

\* both attempts of _get_vector_store to open the index failed
OpenFailedTwice == last.opens = 2 /\ ~vector_stores[last.sid].open

\* C8: when the index of the session cannot be opened, the open is retried
\* once, and if the retry fails too get_response does not raise: it returns
\* the "no documents" reply and the chat endpoint does not answer 500.
C8_OpenFailureDegrades ==
    (ChatAnswered /\ OpenFailedTwice) =>
        /\ ~last.raised
        /\ last.reply = NoDocsReply
        /\ http.status # 500

UploadOps == {"upload_document", "upload_screenshot", "upload_image"}

\* the last response answers an upload whose input is unsupported or holds
\* only blank text
BadUpload ==
    /\ http.op \in UploadOps
    /\ http.status # 404
    /\ http.input \in {"unsupported", "blank"}

\* C10 as stated: on every ingestion path an input that is unsupported or
\* whose text is empty or blank is rejected with an error outcome: the
\* upload is not answered as a success and adds no segment.
C10_BadInputRejected ==
    BadUpload => (http.status # 200 /\ http.added = 0)

\* C10 amended: a document upload that is unsupported or whose text is empty
\* or blank is answered with status 500; a screenshot or image upload from
\* which no text is extracted is answered with status 200; neither adds a
\* segment to the session's index.
C10_BadInputAddsNothing ==
    BadUpload =>
        /\ http.added = 0
        /\ http.op = "upload_document" => http.status = 500
        /\ http.op # "upload_document" => http.status = 200

C10_Witness ==
    /\ BadUpload
    /\ http.op = "upload_document"
    /\ http.input = "blank"
    /\ http.status = 500

C10_WitnessScreenshot ==
    /\ BadUpload
    /\ http.op = "upload_screenshot"
    /\ http.status = 200

(***************************************************************************)
(* Claims about split_text                                                 *)
(***************************************************************************)
\* C3: for every text and every chunk_size > overlap >= 0 the split_text
\* loop reaches its return after finitely many iterations.
C3_SplitTerminates == ValidParams => <>(sp_pc = "return")

\* C4: with chunk_size > overlap >= 0 the window start strictly increases
\* from every loop iteration to the next (so no window is emitted twice).
C4_StartAdvances ==
    [][(SplitIter /\ ValidParams) => sp_start' > sp_start]_vars

\* C28: the parameters every loop iteration of split_text works with
\* satisfy chunk_size > overlap >= 0, whatever pair the chunker was
\* configured with (an invalid pair has been clamped), and the window start
\* never moves backwards.
C28_InvalidParamsClamped ==
    [][SplitIter => (/\ sp_size > sp_overlap
                     /\ sp_overlap >= 0
                     /\ sp_start' >= sp_start)]_vars

\* C28, the outcome: configured with overlap >= chunk_size, split_text still
\* advances through the whole text, so the chunks it returns for a text
\* without white space reach the end of the text.
C28_InvalidParamsCoverText ==
    (sp_pc = "return" /\ ~ValidParams /\ ~HasUnit(sp_text, WS) /\ sp_len > 0)
        => \E i \in 1..Len(sp_chunks) :
              sp_starts[i] + Len(sp_chunks[i]) = sp_len

(***************************************************************************)
(* Claims about the heuristic tier                                         *)
(***************************************************************************)
FellBack == last.op = "fallback"

Leading(text, n) ==
    IF Len(text) > n THEN SubSeq(text, 1, n) \o <<"...">> ELSE text

GreetingTokens == {<<"hi">>, <<"hello">>, <<"hey">>}

\* C15 as stated: when no model answers (none is selected, or every call of
\* the selected one fails) a greeting token is answered with the fixed
\* greeting reply.
C15_GreetingAlwaysGreeted ==
    (Generated /\ gen_in.query \in GreetingTokens
       /\ (llm = "None" \/ AllCallsFailed))
      => last.reply = GreetingReply

\* C15 amended: a greeting token gets the fixed greeting reply, whatever
\* the retrieved segments are, when a model is selected and every call of
\* it fails; when no model is selected it gets the no-model reply built
\* from the question and the retrieved context.
C15_GreetingInHeuristicTier ==
    (Generated /\ gen_in.query \in GreetingTokens)
      => /\ (llm # "None" /\ AllCallsFailed) => last.reply = GreetingReply
         /\ llm = "None"
               => /\ last.reply # GreetingReply
                  /\ last.reply =
                        <<"Based on the documents and your question '">>
                          \o gen_in.query \o <<"':", WS>>
                          \o Leading(BuildContext(gen_in.docs),
                                     NoModelExcerpt)

C15_Witness ==
    /\ Generated
    /\ gen_in.query \in GreetingTokens
    /\ Len(gen_in.docs) = 2
    /\ "heuristic" \in Range(last.calls)
    /\ last.reply = GreetingReply

\* the terms of the query, and the number of those longer than 2 characters
\* that occur in segment i
QueryTerms == SplitWords(Strip(Lower(gen_in.query)))

TermsIn(i) ==
    Cardinality({k \in 1..Len(QueryTerms) :
                    /\ QueryTerms[k] \notin ShortUnits
                    /\ HasUnit(Lower(gen_in.docs[i].content), QueryTerms[k])})

\* no intent family (location, company, role, summary) matches the query
NoFamily ==
    /\ ~IsGreeting(gen_in.query)
    /\ \A w \in LocationWords \cup CompanyWords \cup RoleWords
                 \cup SummaryWords :
           ~ContainsSeq(Lower(gen_in.query), w)

\* C16: when no intent family matches and some segment scores above zero,
\* the answer is the prefix followed by the first 300 characters of the
\* first segment with the highest score, and by '...' exactly when that
\* segment is longer.
C16_BestSegmentExcerpt ==
    (FellBack /\ NoFamily /\ \E i \in 1..Len(gen_in.docs) : TermsIn(i) > 0)
    => \E i \in 1..Len(gen_in.docs) :
          /\ \A j \in 1..Len(gen_in.docs) : TermsIn(j) <= TermsIn(i)
          /\ \A j \in 1..(i - 1) : TermsIn(j) < TermsIn(i)
          /\ last.reply = <<"Based on the documents: ">>
                            \o Leading(gen_in.docs[i].content, BestExcerpt)

\* two different segments tie at the highest score
C16_Witness ==
    /\ FellBack
    /\ NoFamily
    /\ Len(gen_in.docs) = 2
    /\ gen_in.docs[1].content # gen_in.docs[2].content
    /\ TermsIn(1) = TermsIn(2)
    /\ TermsIn(1) > 0

\* C17: for a query that is not a greeting, with no segments and no context
\* the answer is the 'no information' message; when no family matches and
\* no segment scores above zero it is the leading 500 characters of the
\* context, marked when cut.
C17_NoScoreFallback ==
    (FellBack /\ ~IsGreeting(gen_in.query))
    => /\ gen_in.docs = << >> => last.reply = NoInfoReply
       /\ (/\ gen_in.docs # << >>
           /\ NoFamily
           /\ \A i \in 1..Len(gen_in.docs) : TermsIn(i) = 0)
          => last.reply = <<"Based on the documents: ">>
                            \o Leading(BuildContext(gen_in.docs),
                                       ContextExcerpt)

\* the answer of the lexical-overlap scorer (lines 652-674) for the input
ScorerAnswer ==
    LET top == {i \in 1..Len(gen_in.docs) :
                  /\ TermsIn(i) > 0
                  /\ \A j \in 1..Len(gen_in.docs) : TermsIn(j) <= TermsIn(i)
                  /\ \A j \in 1..(i - 1) : TermsIn(j) < TermsIn(i)}
    IN  IF top # {}
        THEN <<"Based on the documents: ">>
               \o Leading(gen_in.docs[CHOOSE i \in top : TRUE].content,
                          BestExcerpt)
        ELSE IF gen_in.docs # << >>
        THEN <<"Based on the documents: ">>
               \o Leading(BuildContext(gen_in.docs), ContextExcerpt)
        ELSE NoInfoReply

\* the family the query is classified in (lines 593, 605, 631, 642)
AskedFamily ==
    LET q == Strip(Lower(gen_in.query))
    IN  IF IsGreeting(gen_in.query) THEN "greeting"
        ELSE IF AnyIn(q, LocationWords) THEN "location"
        ELSE IF AnyIn(q, CompanyWords) /\ ~HasUnit(q, "role") THEN "company"
        ELSE IF AnyIn(q, RoleWords) THEN "role"
        ELSE IF AnyIn(q, SummaryWords) THEN "summary"
        ELSE "none"

\* the first sentence of the segment, or its first 100 characters when it
\* has no full stop, is empty
NoFirstSentence(content) ==
    \/ content = << >>
    \/ content[1] = "."
    \/ \A i \in 1..Len(content) : content[i] = WS \/ content[i] = "."

\* no segment holds a sentence the family of the query accepts
NoQualifyingSentence ==
    CASE AskedFamily = "location" ->
           \A i \in 1..Len(gen_in.docs) :
              /\ ~HasUnit(Lower(gen_in.docs[i].content), "bengaluru")
              /\ ~HasUnit(Lower(gen_in.docs[i].content), "bangalore")
              /\ ~HasUnit(Lower(gen_in.docs[i].content), "in")
      [] AskedFamily = "company" ->
           \A i \in 1..Len(gen_in.docs) :
              ~ContainsSeq(Lower(gen_in.docs[i].content), <<"pin", WS, "click">>)
      [] AskedFamily = "role" ->
           \A i \in 1..Len(gen_in.docs) :
              /\ ~ContainsSeq(Lower(gen_in.docs[i].content),
                              <<"property", WS, "advisor">>)
              /\ ~HasUnit(Lower(gen_in.docs[i].content), "responsible")
      [] AskedFamily = "summary" ->
           \A i \in 1..Min(2, Len(gen_in.docs)) :
              NoFirstSentence(gen_in.docs[i].content)
      [] OTHER -> FALSE

\* C33: when the query is of an intent family (location, company, role,
\* summary), segments were retrieved and none of them holds a sentence that
\* family accepts, the heuristic tier returns the answer of the
\* lexical-overlap scorer.
C33_FamilyFallsBackToScorer ==
    (FellBack /\ gen_in.docs # << >> /\ NoQualifyingSentence)
        => last.reply = ScorerAnswer

\* the same for the three families that look for anchor terms
C33_AnchoredFamiliesFallBack ==
    (FellBack /\ NoQualifyingSentence /\ AskedFamily # "summary")
        => last.reply = ScorerAnswer

\* a company query over segments that do not name the company
C33_WitnessAnchored ==
    /\ FellBack
    /\ AskedFamily = "company"
    /\ NoQualifyingSentence
    /\ Len(gen_in.docs) = 2
    /\ \E i \in 1..2 : TermsIn(i) = 0

\* the reply holds a leading part of the text and not the character after it
CutOf(reply, text) ==
    \E n \in 1..(Len(text) - 1) :
        /\ ContainsSeq(reply, SubSeq(text, 1, n))
        /\ ~ContainsSeq(reply, SubSeq(text, 1, n + 1))

\* C18: an answer of the heuristic tier that holds only a leading part of a
\* segment carries the '...' mark (segments without a full stop, so that no
\* sentence is extracted).
C18_CutIsMarked ==
    (/\ FellBack
     /\ \A i \in 1..Len(gen_in.docs) : ~HasUnit(gen_in.docs[i].content, "."))
    => \A i \in 1..Len(gen_in.docs) :
          CutOf(last.reply, gen_in.docs[i].content)
             => HasUnit(last.reply, "...")

(***************************************************************************)
(* Claims about the output clean-up                                        *)
(***************************************************************************)
Markers == {"Context:", "Question:", "Answer:"}

\* C19: the text _generate_with_llm returns for the response of a model
\* call holds none of the markers 'Context:', 'Question:', 'Answer:'.
C19_NoMarkerReturned ==
    last.op = "return" => \A i \in 1..Len(last.reply) :
                             last.reply[i] \notin Markers

(***************************************************************************)
(* Claims about the remote calls of a request                              *)
(***************************************************************************)
\* the number of times the request made call c
Times(c) == Cardinality({i \in 1..Len(last.calls) : last.calls[i] = c})

\* C22: a request that went through generation has returned after a bounded
\* number of remote attempts: each method of the model object was called at
\* most once, each of the three endpoints was posted to at most twice, a
\* back-off wait happened at most once per endpoint and always between two
\* posts to the same endpoint, and when every call failed the last thing the
\* request did before returning was the heuristic tier.
C22_BoundedRemoteAttempts ==
    Generated =>
        /\ \A c \in {"invoke", "predict", "run", "call", "heuristic"} :
              Times(c) <= 1
        /\ \A c \in {"post1", "post2", "post3"} : Times(c) <= 2
        /\ Times("sleep") <= 3
        /\ \A i \in 1..Len(last.calls) :
              last.calls[i] = "sleep" =>
                 /\ 1 < i /\ i < Len(last.calls)
                 /\ last.calls[i - 1] \in {"post1", "post2", "post3"}
                 /\ last.calls[i + 1] = last.calls[i - 1]
                 /\ Times(last.calls[i - 1]) = 2
        /\ (llm # "None" /\ AllCallsFailed) =>
              last.calls[Len(last.calls)] = "heuristic"

\* every endpoint answered "model warming up" and failed again after the
\* wait
C22_Witness ==
    /\ Generated
    /\ Times("sleep") = 3
    /\ \A c \in {"post1", "post2", "post3"} : Times(c) = 2
    /\ Times("heuristic") = 1

PostName(i) == CASE i = 1 -> "post1" [] i = 2 -> "post2" [] OTHER -> "post3"

\* the position in the calls of the first post to endpoint i (0: none)
FirstPost(i) ==
    IF Times(PostName(i)) = 0 THEN 0
    ELSE CHOOSE k \in 1..Len(last.calls) :
            /\ last.calls[k] = PostName(i)
            /\ \A j \in 1..(k - 1) : last.calls[j] # PostName(i)

\* C31: an endpoint that reported "model warming up" was posted to, waited
\* for once, and posted to once more, in this order and with nothing else
\* in between; after a retry that gave no non-empty answer the request
\* went on to the next endpoint (after the third, away from the endpoints)
\* without waiting or posting to it again; a retry that gave an answer
\* ended the calls; and an endpoint that did not report warming up was
\* never waited for or posted to twice.
C31_WarmUpRetriedOnce ==
    Generated =>
        \A i \in 1..3 :
            LET o == gen_in.oc.api[i]
                k == FirstPost(i)
                n == Len(last.calls)
            IN  /\ o.warm =>
                      /\ k > 0 /\ k + 2 <= n
                      /\ last.calls[k + 1] = "sleep"
                      /\ last.calls[k + 2] = PostName(i)
                      /\ Times(PostName(i)) = 2
                      /\ o.out \in {"fail", "empty"} =>
                            /\ k + 3 <= n =>
                                  last.calls[k + 3] \notin {PostName(i), "sleep"}
                            /\ i < 3 => (/\ k + 3 <= n
                                         /\ last.calls[k + 3] = PostName(i + 1))
                      /\ o.out \in {"ans", "echo"} => k + 2 = n
                /\ ~o.warm =>
                      /\ Times(PostName(i)) <= 1
                      /\ (k > 0 /\ k < n) => last.calls[k + 1] # "sleep"

\* the first endpoint reported warming up and returned nothing after the
\* wait; the second one answered
C31_Witness ==
    /\ Generated
    /\ gen_in.oc.api[1] = [warm |-> TRUE, out |-> "empty"]
    /\ gen_in.oc.api[2] = [warm |-> FALSE, out |-> "ans"]
    /\ last.calls = <<"invoke", "predict", "run", "post1", "sleep", "post1",
                      "post2">>

\* the request made a call to a remote endpoint
RemoteCallMade ==
    \/ \E i \in 1..Len(last.calls) :
          last.calls[i] \in {"post1", "post2", "post3", "sleep"}
    \/ RemoteSelected /\ last.calls # << >>

\* C23 as stated: the credential is read once, by the initialisation of the
\* generator (InitLLM), so that generating an answer never reads it, and
\* when it is absent no request makes a remote call and none fails.
C23_KeyReadOnceAtInit ==
    Generated =>
        /\ last.reads = << >>
        /\ ~hf_api_key => (~RemoteCallMade /\ ~last.raised)

\* C23 amended: the credential is read by the initialisation of the
\* generator and read again, once, by the generation step of every request
\* whose model object answered none of invoke, predict and run; when it is
\* absent no remote client is selected, no request makes a remote call and
\* none fails.
C23_AbsentKeyDisablesRemote ==
    Generated =>
        /\ last.reads \in {<< >>, <<"_generate_with_llm">>}
        /\ last.reads # << >> <=> (Times("run") = 1 /\ gen_in.oc.run = "fail")
        /\ ~hf_api_key => (~RemoteSelected /\ ~RemoteCallMade /\ ~last.raised)

\* without a credential the local model failed on every call: the
\* generation step read the environment again, posted nothing and answered
\* from the heuristic tier
C23_Witness ==
    /\ Generated
    /\ ~hf_api_key
    /\ llm = "Pipeline"
    /\ last.reads = <<"_generate_with_llm">>
    /\ last.calls = <<"invoke", "predict", "run", "call", "heuristic">>

(***************************************************************************)
(* Claims about retrieval (SpecRetr, Spec)                                 *)
(***************************************************************************)
\* the contents of at most three segments, a blank line between two of them
BlankLineJoined(docs) ==
    CASE Len(docs) = 1 -> docs[1].content
      [] Len(docs) = 2 -> docs[1].content \o <<WS>> \o docs[2].content
      [] OTHER -> docs[1].content \o <<WS>> \o docs[2].content \o <<WS>>
                      \o docs[3].content

\* C24: a get_response that answers from retrieved segments retrieved at
\* most 3 of them, all segments of the session's index; the
\* sources returned are the set of their source
\* values, "Unknown" standing for a segment without one; and the context
\* (shown by the reply built when no model is configured) is their contents
\* in retrieval order with a blank line between them.
C24_SourcesAndContext ==
    (Answered /\ last.docs # << >>) =>
        LET docs == last.docs
            indexed == store[CollectionName(last.sid)]
        IN  /\ Len(docs) <= 3
            /\ \A i \in 1..Len(docs) : docs[i] \in Range(indexed)
            /\ last.sources =
                 {d.source : d \in {x \in Range(docs) : "source" \in DOMAIN x}}
                 \cup (IF \E x \in Range(docs) : "source" \notin DOMAIN x
                       THEN {"Unknown"} ELSE {})
            /\ llm = "None" =>
                 last.reply = NoModelReply(last.query, BlankLineJoined(docs))

\* four segments are indexed; the three retrieved are not in stored order,
\* two of them come from the same document and one names no source
C24_Witness ==
    /\ Answered
    /\ Len(store[CollectionName("s1")]) = 4
    /\ Len(last.docs) = 3
    /\ last.docs[1].content = <<"d">>
    /\ last.docs[2].content = <<"b">>
    /\ last.docs[3].content = <<"a">>
    /\ last.sources = {"Unknown", "doc1"}

\* no model produced the reply: none is configured, or the heuristic tier
\* answered after every call of the configured one failed
NoModelAnswered ==
    \/ llm = "None"
    \/ (last.calls # << >> /\ last.calls[Len(last.calls)] = "heuristic")

\* the text names Bengaluru
MentionsBengaluru(text) ==
    HasUnit(text, "Bengaluru") \/ text = BengaluruReply

\* C25: session s1 has ingested the document doc1, whose text names
\* Bengaluru; a location-seeking query of s1 that no model answers, and
\* whose retrieval did not fail twice, returns a reply that mentions
\* Bengaluru and exactly the source doc1.
C25_LocationAnswered ==
    (/\ Answered
     /\ last.sid = "s1"
     /\ ingested["s1"] # {}
     /\ ~(RankedRaised /\ PlainRaised)
     /\ NoModelAnswered)
        => /\ MentionsBengaluru(last.reply)
           /\ last.sources = {"doc1"}

\* the query was answered with no model configured
C25_Witness ==
    /\ Answered
    /\ last.sid = "s1"
    /\ ingested["s1"] # {}
    /\ llm = "None"
    /\ last.query = <<"where">>
    /\ HasUnit(last.reply, "Bengaluru")
    /\ last.sources = {"doc1"}

\* the query was answered by the location branch of the heuristic tier
C25_WitnessHeuristic ==
    /\ Answered
    /\ last.sid = "s1"
    /\ last.calls # << >>
    /\ last.calls[Len(last.calls)] = "heuristic"
    /\ last.reply = BengaluruReply
    /\ last.sources = {"doc1"}

(***************************************************************************)
(* Claims about process_text (SpecProc)                                    *)
(***************************************************************************)
\* process_text returned a list of segments
Processed == last.op = "process_text" /\ ~last.raised

\* C26: every segment process_text returns carries the caller's document
\* identifier, its position in the returned list as index, and the length
\* of the returned list as total, on the normal and on the degraded path.
C26_SegmentMetadata ==
    Processed =>
        \A i \in 1..Len(last.docs) :
            /\ last.docs[i].source = gen_in.source
            /\ last.docs[i].chunk_index = i - 1
            /\ last.docs[i].total_chunks = Len(last.docs)

\* the larger of two numbers
Max(a, b) == IF a > b THEN a ELSE b

\* C27: a call whose first split_text raised MemoryError and whose retry
\* did not leaves the splitter with chunk_size and overlap halved but not
\* below the floors of 500 and 100 characters (5 units and 1 unit), and
\* returns, without an error, at most degraded_max_chunks segments, all cut
\* from the first DegradedPrefix units of the text.
C27_DegradedRetry ==
    [][(last'.op = "process_text" /\ gen_in'.oom = "once") =>
          /\ dp_size' = Max(dp_size \div 2, DegradedSizeCap)
          /\ dp_overlap' = Max(dp_overlap \div 2, DegradedOverlapCap)
          /\ ~last'.raised
          /\ Len(last'.docs) <= degraded_max_chunks
          /\ \A i \in 1..Len(last'.docs) :
                ContainsSeq(Slice(gen_in'.text, 0, DegradedPrefix),
                            last'.docs[i].content)
      ]_vars

\* C37: the chunking parameters of the processor are the same at the start
\* of every process_text call, and a text chunked again without a memory
\* error yields the segments it yielded before.
C37_ParametersStable ==
    [][/\ dp_size' = dp_size
       /\ dp_overlap' = dp_overlap
       /\ (/\ Processed /\ last'.op = "process_text" /\ ~last'.raised
           /\ gen_in'.text = gen_in.text
           /\ gen_in.oom = "no" /\ gen_in'.oom = "no")
             => last'.docs = last.docs
      ]_vars

(***************************************************************************)
(* Claims about the handle cache and the stored segments (Spec)            *)
(***************************************************************************)
\* add_documents returned to its caller
AddReturned == last.op = "add_documents" /\ ~last.raised

\* C29: when add_documents returns, the cache holds no handle for its
\* session; the next call for that session therefore opens a handle anew;
\* and a handle enters the cache only in a call for its own session that
\* opened it.
C29_EagerInvalidation ==
    [][/\ (last'.op = "add_documents" /\ ~last'.raised)
            => ~vector_stores'[last'.sid].open
       /\ (AddReturned /\ last'.sid = last.sid) => last'.opens >= 1
       /\ \A s \in SessionIds :
             (~vector_stores[s].open /\ vector_stores'[s].open)
                => (last'.sid = s /\ last'.opens >= 1)
      ]_vars

\* add_documents wrote through a handle that a query had cached, returned,
\* and left the cache without it
C29_Witness ==
    /\ AddReturned
    /\ last.added > 0
    /\ last.opens = 0
    /\ ~vector_stores[last.sid].open

\* a query after the returned add_documents opened a fresh handle
C29_WitnessReopened ==
    /\ Answered
    /\ last.opens = 1
    /\ ingested[last.sid] # {}
    /\ vector_stores[last.sid].open
    /\ vector_stores[last.sid].seen = Len(store[CollectionName(last.sid)])

\* C30: no step of the service removes or replaces a stored segment: what
\* every collection held before the step is the beginning of what it holds
\* after it.
C30_StoreOnlyGrows ==
    [][\A c \in Collections :
          /\ Len(store'[c]) >= Len(store[c])
          /\ SubSeq(store'[c], 1, Len(store[c])) = store[c]
      ]_vars

\* a query was answered on a session that holds the segments of two
\* add_documents calls
C30_Witness ==
    /\ Answered
    /\ last.docs # << >>
    /\ Len(store[CollectionName(last.sid)]) = 2
    /\ Cardinality(ingested[last.sid]) >= 1

\* C38: a call of add_documents or get_response for session S leaves the
\* cache entry and the stored segments of every other session as they were;
\* get_response removes no cache entry and writes no collection; and a cache
\* entry is removed only by a call of add_documents for its own session that
\* returns.
C38_HandleCacheFrame ==
    [][/\ \A s \in SessionIds \ {last'.sid} :
             /\ vector_stores'[s] = vector_stores[s]
             /\ store'[CollectionName(s)] = store[CollectionName(s)]
       /\ last'.op = "get_response" =>
             /\ store' = store
             /\ \A s \in SessionIds :
                   vector_stores[s].open => vector_stores'[s] = vector_stores[s]
       /\ \A s \in SessionIds :
             (vector_stores[s].open /\ ~vector_stores'[s].open)
                => (last'.op = "add_documents" /\ last'.sid = s
                      /\ ~last'.raised)
      ]_vars

\* add_documents for one session returned while the other session holds a
\* cached handle and stored segments
C38_Witness ==
    /\ AddReturned
    /\ last.added > 0
    /\ last.opens = 0
    /\ \E s \in SessionIds \ {last.sid} :
          /\ vector_stores[s].open
          /\ store[CollectionName(s)] # << >>

\* get_response for one session returned while both sessions hold a handle
C38_WitnessQuery ==
    /\ Answered
    /\ last.docs # << >>
    /\ \A s \in SessionIds : vector_stores[s].open

(***************************************************************************)
(* Claims about model loading (SpecRetr)                                   *)
(***************************************************************************)
\* the local model was called by the last request
LocalCallMade ==
    \E i \in 1..Len(last.calls) :
        last.calls[i] \in {"invoke", "predict", "run", "call"}

\* C32: model loading is attempted at most once per process.  Once _init_llm
\* has run, whether it found a model or not, no later step changes the model
\* object, the stored repository id or the record of what loading did,
\* whatever the environment of the later request would load; the request
\* that ran a failing load returned normally, and after a failed load no
\* request calls the local model.
C32_ModelLoadedOnce ==
    [][(llm_initialized =>
          /\ llm_initialized'
          /\ llm' = llm
          /\ llm_repo_id' = llm_repo_id
          /\ local_loadable' = local_loadable)
       /\ ((~llm_initialized /\ llm_initialized') =>
             /\ last'.op = "get_response"
             /\ ~last'.raised
             /\ (local_loadable' = "no" => llm' = "None"))
       /\ ((local_loadable' = "no" /\ last'.op = "get_response") =>
             /\ ~last'.raised
             /\ \A i \in 1..Len(last'.calls) :
                   last'.calls[i] \notin {"invoke", "predict", "run", "call"})
      ]_vars

\* loading failed at the first request; a later request, made when the local
\* model would have loaded, was answered without a model
C32_Witness ==
    /\ Answered
    /\ last.docs # << >>
    /\ last.opens = 0
    /\ llm_initialized
    /\ local_loadable = "no"
    /\ llm = "None"
    /\ ~LocalCallMade

(***************************************************************************)
(* Claims about the endpoints (SpecApi)                                    *)
(***************************************************************************)
\* C35: a chat or upload request that names a session which does not exist
\* is answered with 404 and changes nothing: no message and no file record
\* is stored, no index handle is created or dropped, no index is written,
\* no session appears and no model is loaded.
C35_UnknownSessionRejected ==
    [][(http'.op \in UploadOps \cup {"chat"} /\ http'.sid \notin sessions)
          => /\ http'.status = 404
             /\ messages' = messages
             /\ files' = files
             /\ sessions' = sessions
             /\ vector_stores' = vector_stores
             /\ store' = store
             /\ embeddings_initialized' = embeddings_initialized
             /\ llm_initialized' = llm_initialized
             /\ last' = last]_vars

\* a chat request for a session that was never created was rejected; the
\* transcript of that id holds a row written through create_message
C35_Witness ==
    /\ http.op = "chat"
    /\ http.status = 404
    /\ http.sid \notin sessions
    /\ messages[http.sid] # << >>

\* an upload for a session that was never created was rejected
C35_WitnessUpload ==
    /\ http.op \in UploadOps
    /\ http.status = 404
    /\ http.sid \notin sessions
    /\ files[http.sid] = 0

\* the step is a chat request on an existing session
ChatStep ==
    /\ http'.op = "chat"
    /\ http'.sid \in sessions
    /\ hung' = hung

\* C36: a chat request on an existing session that succeeds appends one
\* user message followed by one assistant message to the transcript of that
\* session and to no other; one whose answer generation raises is answered
\* with 500 and appends the user message alone, which was committed before
\* generation began.  No other outcome exists.
C36_ChatTranscript ==
    [][ChatStep =>
          /\ http'.status \in {200, 500}
          /\ http'.status = 500 <=> last'.raised
          /\ \A s \in SessionIds \ {http'.sid} : messages'[s] = messages[s]
          /\ http'.status = 200 =>
                messages'[http'.sid] =
                    messages[http'.sid] \o <<"user", "assistant">>
          /\ http'.status = 500 =>
                messages'[http'.sid] = Append(messages[http'.sid], "user")
       ]_vars

\* two chats were answered one after the other
C36_Witness ==
    /\ http.op = "chat"
    /\ http.status = 200
    /\ messages[http.sid] = <<"user", "assistant", "user", "assistant">>

\* generation raised: the transcript ends with the user message
C36_WitnessFailed ==
    /\ http.op = "chat"
    /\ http.status = 500
    /\ last.raised
    /\ messages[http.sid] = <<"user", "assistant", "user">>

(***************************************************************************)
(* Claims about exceptions inside get_response (SpecErr)                   *)
(***************************************************************************)
\* the step of the last request raised
StepRaised(step) ==
    \E i \in 1..Len(last.searches) : last.searches[i] = <<step, "raise">>

\* an exception passed every inner handler of the last request
EscapedInner == StepRaised("context") \/ StepRaised("generation")

\* a model method was called by the last request and raised, as every model
\* call of the error-handling specification does
ModelCallRaised == LocalCallMade /\ Times("heuristic") = 1

\* C34 as stated: once the handle is obtained, an exception in the empty
\* probe, the retrieval or the generation gives the fixed error reply with
\* no sources, and sources are named only when a segment was retrieved.
C34_ExceptionsGiveErrorReply ==
    last.op = "get_response"
    => /\ ~last.raised
       /\ (\/ StepRaised("probe") \/ StepRaised("ranked") \/ PlainRaised
           \/ EscapedInner \/ ModelCallRaised)
             => (last.reply = ErrorReply /\ last.sources = {})
       /\ last.sources # {} => last.docs # << >>

\* C34 as the code has it: the request returns whatever step raises.  Only
\* an exception that passes the inner handlers gives the fixed error reply
\* with no sources.  An exception of the probe is ignored, one of the
\* ranked retrieval leads to the plain search, one of the plain search to
\* the 'no documents' reply with no sources, and one of a model call to the
\* next tier; none of these gives the error reply.  Sources are named only
\* when a segment was retrieved.
C34_EscapedExceptionsGiveErrorReply ==
    last.op = "get_response"
    => /\ ~last.raised
       /\ EscapedInner => (last.reply = ErrorReply /\ last.sources = {})
       /\ ~EscapedInner => last.reply # ErrorReply
       /\ PlainRaised => (last.reply = NoDocsReply /\ last.sources = {})
       /\ (StepRaised("probe") /\ ~PlainRaised /\ ~EscapedInner
              /\ SeenBy("s1") # << >>)
             => (last.docs # << >> /\ last.reply # NoDocsReply
                   /\ last.sources = Sources(last.docs))
       /\ (ModelCallRaised /\ ~EscapedInner)
             => last.sources = Sources(last.docs)
       /\ last.sources # {} => last.docs # << >>

\* the probe raised and the request was answered from retrieved segments
C34_WitnessProbe ==
    /\ Answered
    /\ StepRaised("probe")
    /\ last.docs # << >>
    /\ last.sources # {}

\* an exception left the generation and became the fixed error reply
C34_WitnessEscaped ==
    /\ Answered
    /\ StepRaised("generation")
    /\ last.docs # << >>
    /\ last.reply = ErrorReply

(***************************************************************************)
(* Claims about concurrent requests                                        *)
(***************************************************************************)
\* add_documents of task a has written and has not yet dropped the cache
\* entry of its session
InWriteWindow(a) ==
    /\ tasks[a].kind = "add"
    /\ tasks[a].pc \in {"written", "persisted"}

\* this step is get_response of task q obtaining the handle or searching
\* through it
ReadsHandle(q) ==
    /\ tasks[q].kind = "query"
    /\ tasks[q].pc \in {"start", "have_handle"}
    /\ tasks'[q].pc # tasks[q].pc

\* C20: no step in which a get_response obtains or uses the cached handle of
\* a session is taken while an add_documents for the same session is
\* between its write and the end of its cache invalidation.
C20_NoReadDuringInvalidation ==
    [][\A q \in TaskIds, a \in TaskIds :
          (ReadsHandle(q) /\ tasks[a].sid = tasks[q].sid) => ~InWriteWindow(a)
      ]_vars

\* a query holds the handle of a session whose add_documents has returned
C20_Witness ==
    \E q \in TaskIds, a \in TaskIds :
        /\ tasks[q].kind = "query"
        /\ tasks[q].pc = "have_handle"
        /\ tasks[a].kind = "add"
        /\ tasks[a].pc = "done"
        /\ tasks[a].sid = tasks[q].sid

\* task t has started and stands before one of its I/O-bound steps (the
\* index write, the persist, the cache drop and re-open, the retrieval, the
\* generation with its remote calls and back-off)
InIoStep(t) ==
    /\ tasks[t].kind # "none"
    /\ tasks[t].pc \in {"have_handle", "written", "persisted", "retrieved"}

\* task u has arrived and has not returned
Pending(u) ==
    /\ tasks[u].kind # "none"
    /\ tasks[u].pc # "done"

\* C21: while one request stands in an I/O-bound step, the event loop is
\* free for every other pending request of the process (the step is a
\* suspension point, so the other request can take its next step).
C21_IoStepsSuspend ==
    \A t \in TaskIds, u \in TaskIds :
        (t # u /\ InIoStep(t) /\ Pending(u)) => running # t

CeilDiv(a, b) == (a + b - 1) \div b

\* the number of windows of width C that slide by C - O over L characters
WindowCount(L, C, O) == CeilDiv(L - O, C - O)

\* C11: a text without whitespace, longer than chunk_size and short enough
\* for its windows to stay under the chunk ceiling, is returned as exactly
\* ceil((L - O) / (C - O)) chunks of at most C characters, consecutive
\* chunks sharing exactly O characters.
C11_SlidingWindowCount ==
    (/\ sp_pc = "return"
     /\ ValidParams
     /\ ~HasUnit(sp_text, WS)
     /\ sp_len > sp_size
     /\ WindowCount(sp_len, sp_size, sp_overlap) <= max_chunks)
    => /\ Len(sp_chunks) = WindowCount(sp_len, sp_size, sp_overlap)
       /\ \A i \in 1..Len(sp_chunks) : Len(sp_chunks[i]) <= sp_size
       /\ \A i \in 1..(Len(sp_chunks) - 1) :
             sp_starts[i] + Len(sp_chunks[i]) - sp_starts[i + 1] = sp_overlap

\* C12: every chunk in the list split_text builds holds at least one
\* character that is not whitespace.
C12_NoBlankChunk ==
    \A i \in 1..Len(sp_chunks) :
        \E j \in 1..Len(sp_chunks[i]) : sp_chunks[i][j] # WS

\* split_text returned chunks for a text whose whitespace window it skipped
C12_Witness ==
    /\ sp_pc = "return"
    /\ sp_size = 1
    /\ sp_overlap = 0
    /\ HasUnit(sp_text, WS)
    /\ Len(sp_chunks) >= 1
    /\ Len(sp_chunks) < sp_len

\* C13: split_text never holds more than max_chunks chunks, works on at most
\* the first chunk_size * max_chunks characters and takes every chunk from
\* that prefix; process_text returns at most max_chunks segments, with or
\* without the MemoryError retry.
C13_ResourceCeiling ==
    /\ Len(sp_chunks) <= max_chunks
    /\ sp_pc \in {"loop", "return"} =>
          /\ sp_len <= sp_size * max_chunks
          /\ Len(sp_text) = sp_len
          /\ \A i \in 1..Len(sp_chunks) :
                sp_starts[i] + Len(sp_chunks[i]) <= sp_size * max_chunks
    /\ sp_pc = "call" =>
          \A oom \in {"no", "once"} :
              Len(ProcessText(sp_text, "doc", sp_size, sp_overlap,
                              oom).docs) <= max_chunks

\* split_text returned with the ceiling reached on a text of the longest
\* length it reads
C13_Witness ==
    /\ sp_pc = "return"
    /\ Len(sp_chunks) = max_chunks
    /\ sp_len = sp_size * max_chunks

====
